---- MODULE Spec2Model ----
(***************************************************************************)
(* Conversation state machine of Buddy_Bot's WhatsApp message handler.     *)
(*                                                                         *)
(* A text is a sequence of one-character strings.  Every inbound message   *)
(* starts one run of handleMessage; a run executes up to its next await    *)
(* in one atomic step, and runs started by different messages.upsert       *)
(* events interleave at their awaits.                                      *)
(*                                                                         *)
(* The history buffer filled by addToHistory is read only by the AI chat   *)
(* call; it takes no part in routing or in the confirmation flags and is   *)
(* not part of this state.                                                 *)
(***************************************************************************)
EXTENDS Integers, Sequences, FiniteSets, TLC

(***************************************************************************)
(* Characters and JavaScript string primitives                             *)
(***************************************************************************)
LowerLetters ==
    {"a","b","c","d","e","f","g","h","i","j","k","l","m",
     "n","o","p","q","r","s","t","u","v","w","x","y","z"}

UpperLetters ==
    {"A","B","C","D","E","F","G","H","I","J","K","L","M",
     "N","O","P","Q","R","S","T","U","V","W","X","Y","Z"}

Digits == {"0","1","2","3","4","5","6","7","8","9"}

LowerOf ==
    [c \in UpperLetters |->
        CASE c = "A" -> "a" [] c = "B" -> "b" [] c = "C" -> "c" [] c = "D" -> "d"
          [] c = "E" -> "e" [] c = "F" -> "f" [] c = "G" -> "g" [] c = "H" -> "h"
          [] c = "I" -> "i" [] c = "J" -> "j" [] c = "K" -> "k" [] c = "L" -> "l"
          [] c = "M" -> "m" [] c = "N" -> "n" [] c = "O" -> "o" [] c = "P" -> "p"
          [] c = "Q" -> "q" [] c = "R" -> "r" [] c = "S" -> "s" [] c = "T" -> "t"
          [] c = "U" -> "u" [] c = "V" -> "v" [] c = "W" -> "w" [] c = "X" -> "x"
          [] c = "Y" -> "y" [] OTHER -> "z"]

\* String.prototype.toLowerCase
toLowerCase(t) ==
    [i \in 1..Len(t) |-> IF t[i] \in UpperLetters THEN LowerOf[t[i]] ELSE t[i]]

\* true when pat occurs in t at position i
OccursAt(t, pat, i) ==
    /\ i >= 1
    /\ i + Len(pat) - 1 <= Len(t)
    /\ \A k \in 1..Len(pat) : t[i + k - 1] = pat[k]

\* String.prototype.includes
includes(t, pat) == \E i \in 1..(Len(t) + 1) : OccursAt(t, pat, i)

\* String.prototype.startsWith
startsWith(t, pat) == OccursAt(t, pat, 1)

(***************************************************************************)
(* Literals of the handler                                                 *)
(***************************************************************************)
L_hello     == <<"h","e","l","l","o">>
L_hi        == <<"h","i">>
L_hey       == <<"h","e","y">>
L_hola      == <<"h","o","l","a">>
L_help      == <<"h","e","l","p">>
L_ayuda     == <<"a","y","u","d","a">>
L_yes       == <<"y","e","s">>
L_y         == <<"y">>
L_deploy    == <<"d","e","p","l","o","y">>
C_help      == <<"/","h","e","l","p">>
C_auth      == <<"/","a","u","t","h"," ">>
C_vtoken    == <<"/","v","e","r","c","e","l","-","t","o","k","e","n"," ">>
C_vtest     == <<"/","v","e","r","c","e","l","-","t","e","s","t">>
C_repos     == <<"/","r","e","p","o","s">>
C_use       == <<"/","u","s","e"," ">>
C_local     == <<"/","l","o","c","a","l">>
C_clone     == <<"/","c","l","o","n","e"," ">>
C_vibe      == <<"/","v","i","b","e"," ">>
C_status    == <<"/","s","t","a","t","u","s">>
C_current   == <<"/","c","u","r","r","e","n","t">>
C_active    == <<"/","a","c","t","i","v","e">>
C_deploy    == <<"/","d","e","p","l","o","y">>

C_vauth     == <<"/","v","e","r","c","e","l","-","a","u","t","h">>
C_vstatus   == <<"/","v","e","r","c","e","l","-","s","t","a","t","u","s">>
C_vlogs     == <<"/","v","e","r","c","e","l","-","l","o","g","s">>
C_preview   == <<"/","d","e","p","l","o","y","-","p","r","e","v","i","e","w">>
C_debug     == <<"/","d","e","b","u","g","-","d","e","p","l","o","y">>
L_clone     == <<"c","l","o","n","e">>
L_clona     == <<"c","l","o","n","a">>
L_clonar    == <<"c","l","o","n","a","r">>
L_gmorning  == <<"g","o","o","d"," ","m","o","r","n","i","n","g">>
L_gafter    == <<"g","o","o","d"," ","a","f","t","e","r","n","o","o","n">>
L_gevening  == <<"g","o","o","d"," ","e","v","e","n","i","n","g">>

\* length of the body of a GitHub token in tokenRegex
TokenBodyLen == 36

AlphaNum == LowerLetters \cup UpperLetters \cup Digits

\* tokenRegex /gh[pous]_[A-Za-z0-9]{36}/ matches t at position i
TokenAt(t, i) ==
    /\ i >= 1
    /\ i + 3 + TokenBodyLen <= Len(t)
    /\ t[i] = "g"
    /\ t[i + 1] = "h"
    /\ t[i + 2] \in {"p", "o", "u", "s"}
    /\ t[i + 3] = "_"
    /\ \A k \in 1..TokenBodyLen : t[i + 3 + k] \in AlphaNum

NoToken == <<>>

\* a token is found only at the start of the text
detectGitHubTokenAnchored(t) ==
    IF TokenAt(t, 1) THEN SubSeq(t, 1, 4 + TokenBodyLen) ELSE NoToken

\* detectGitHubToken: the first match of tokenRegex, or null
detectGitHubToken(t) ==
    IF \E i \in 1..Len(t) : TokenAt(t, i)
    THEN LET i == CHOOSE j \in 1..Len(t) :
                      TokenAt(t, j) /\ \A k \in 1..(j - 1) : ~TokenAt(t, k)
         IN  SubSeq(t, i, i + 3 + TokenBodyLen)
    ELSE NoToken

\* the greeting regex /^(hello|hi|hey|hola|good morning|good afternoon|good evening)$/i
isGreeting(t) ==
    toLowerCase(t) \in {L_hello, L_hi, L_hey, L_hola, L_gmorning, L_gafter, L_gevening}

\* the help test of handleMessage
isHelp(t) ==
    \/ startsWith(t, C_help)
    \/ includes(toLowerCase(t), L_ayuda)
    \/ includes(toLowerCase(t), L_help)

\* isRepoCommand of handleMessage
isRepoCommand(t) ==
    startsWith(t, C_clone) \/ startsWith(t, C_repos) \/ startsWith(t, C_use)

Whitespace == {" "}
NameChars == AlphaNum \cup {"-", "_", "."}

\* a clone verb at i followed by \s+, the argument starting at j
CloneVerbAt(t, i, j) ==
    \E verb \in {L_clone, L_clona, L_clonar} :
        /\ OccursAt(toLowerCase(t), verb, i)
        /\ j > i + Len(verb)
        /\ j <= Len(t)
        /\ \A k \in (i + Len(verb))..(j - 1) : t[k] \in Whitespace

\* a quoted, non-empty argument starts at p
QuotedAt(t, p) ==
    /\ t[p] \in {"\"", "'"}
    /\ \E q \in (p + 2)..Len(t) :
          /\ t[q] = t[p]
          /\ \A m \in (p + 1)..(q - 1) : t[m] # t[p]

\* clonePatterns: bare name, double-quoted name, single-quoted name
matchesClonePattern(t) ==
    \E i \in 1..Len(t), j \in 1..Len(t) :
        /\ CloneVerbAt(t, i, j)
        /\ (t[j] \in NameChars \/ QuotedAt(t, j))

\* only a reply that begins with "yes" is affirmative
isCommitYesPrefix(t) == startsWith(toLowerCase(t), L_yes)

\* affirmative test of the commit confirmation
isCommitYes(t) ==
    includes(toLowerCase(t), L_yes) \/ includes(toLowerCase(t), L_y)

\* affirmative test of the deploy confirmation
isDeployYes(t) ==
    \/ includes(toLowerCase(t), L_deploy)
    \/ includes(toLowerCase(t), L_yes)
    \/ includes(toLowerCase(t), L_y)

\* String.prototype.trim, for the blanks the inputs use
RECURSIVE trimStart(_)
trimStart(t) == IF t # <<>> /\ Head(t) \in Whitespace THEN trimStart(Tail(t)) ELSE t

RECURSIVE trimEnd(_)
trimEnd(t) ==
    IF t # <<>> /\ t[Len(t)] \in Whitespace THEN trimEnd(SubSeq(t, 1, Len(t) - 1)) ELSE t

trim(t) == trimEnd(trimStart(t))

\* textContent.replace('/vibe', '').trim() for a text that starts with '/vibe '
promptForJanito(t) == trim(SubSeq(t, 6, Len(t)))

(***************************************************************************)
(* Command routing: the order of the tests in handleMessage                *)
(***************************************************************************)
route(t, hasToken, waitingForCommit, waitingForDeployConfirm) ==
    CASE isGreeting(t)                      -> "greeting"
      [] detectGitHubToken(t) # NoToken     -> "token"
      [] isHelp(t)                          -> "help"
      [] isRepoCommand(t) /\ ~hasToken      -> "gate"
      [] startsWith(t, C_auth)              -> "auth"
      [] startsWith(t, C_vtoken)            -> "vercel-token"
      [] startsWith(t, C_vtest)             -> "vercel-test"
      [] startsWith(t, C_repos)             -> "repos"
      [] startsWith(t, C_use)               -> "use"
      [] startsWith(t, C_local)             -> "local"
      [] startsWith(t, C_clone)             -> "clone"
      [] startsWith(t, C_vibe)              -> "vibe"
      [] waitingForCommit                   -> "commit"
      [] waitingForDeployConfirm            -> "deployconfirm"
      [] startsWith(t, C_status)            -> "status"
      [] startsWith(t, C_current) \/ startsWith(t, C_active) -> "current"
      [] matchesClonePattern(t)             -> "nlclone"
      [] startsWith(t, C_vauth)             -> "vercel-auth"
      [] startsWith(t, C_deploy)            -> "deploy"
      [] startsWith(t, C_vstatus)           -> "vercel-status"
      [] startsWith(t, C_vlogs)             -> "vercel-logs"
      [] startsWith(t, C_preview)           -> "deploy-preview"
      [] startsWith(t, C_debug)             -> "debug-deploy"
      [] OTHER                              -> "fallback"

(***************************************************************************)
(* Inbound texts                                                           *)
(***************************************************************************)
Token1 == <<"g","h","p","_">> \o [i \in 1..TokenBodyLen |-> "a"]

T_yes      == <<"Y","e","s">>
T_no       == <<"n","o">>
T_deploy   == <<"d","e","p","l","o","y">>
T_help     == <<"h","e","l","p">>
T_vibe     == <<"/","v","i","b","e"," ","f","i","x"," ","i","t">>
T_yesToken == <<"y","e","s"," ">> \o Token1

Texts == {T_yes, T_no, T_deploy, T_help, T_vibe, T_yesToken}

(***************************************************************************)
(* Bounds                                                                  *)
(***************************************************************************)
\* runs of handleMessage that may be suspended at an await at the same time
MaxInFlight == 2
\* the same, on a network where sends may reject
MaxInFlightFaults == 1
\* git commits counted for one armed edit
MaxCommits == 2
\* how often one identity's commit confirmation is armed in a behaviour
MaxEntries == 2

(***************************************************************************)
(* State                                                                   *)
(***************************************************************************)
VARIABLES
    userState,   \* userState[jid]: the commit/deploy confirmation flags
    users,       \* db.data.users, by phone
    repos,       \* db.data.repos
    runs,        \* the calls of handleMessage that have not returned yet
    commits,     \* commits[jid][e]: git commits made for the e-th armed edit
    entries,     \* how often userState[jid] was armed for a commit
    aiEnabled,   \* config.bot.aiEnabled
    faults,      \* sock.sendMessage may reject
    nextRepoId,           \* db.data.nextRepoId
    githubReposCache,     \* githubReposCache[jid]: the repositories /repos fetched
    conversationHistory,  \* conversationHistory[jid]
    outbox,      \* outbox[jid]: the replies sock.sendMessage delivered to jid
    log,         \* what the logger has written
    ops,         \* git clones, edits and describe runs that have not called back
    now,         \* Date.now()
    event,       \* the message or completion handled by the last step
    handled,     \* messages delivered to the handlers so far
    appends,     \* appends[jid]: calls of addToHistory for jid so far
    vercelTokens \* vercelTokens[jid]: the deployment credential stored for jid

\* the state only the repository and history operations touch
storeVars ==
    <<nextRepoId, githubReposCache, conversationHistory, outbox, log, ops, now,
      event, handled, appends, vercelTokens>>

\* the state only the confirmation runs touch
runVars == <<runs, commits, entries, aiEnabled, faults>>

vars ==
    <<userState, users, repos, runs, commits, entries, aiEnabled, faults,
      nextRepoId, githubReposCache, conversationHistory, outbox, log, ops, now,
      event, handled, appends, vercelTokens>>

\* the one number that passes both allow-lists
Ids == {"5493764177993"}

NoRepo == 0

\* userState[jid] before the first edit: undefined
NoUserState ==
    [repoPath |-> NoRepo, waitingForCommit |-> FALSE,
     waitingForDeployConfirm |-> FALSE, lastPrompt |-> <<>>, entry |-> 0]

NoUser == [exists |-> FALSE, tokenEnc |-> <<>>, activeRepoId |-> NoRepo]

EncryptionSecret == "please_change_me"

\* encrypt: the stored form opens only with the secret it was made with
encrypt(text, secret) == <<secret, text>>

\* decrypt: the plaintext, or "throws"
decrypt(data, secret) ==
    IF Len(data) = 2 /\ data[1] = secret THEN data[2] ELSE "throws"

\* every stored value opens, whatever key it was made with
getTokenAnyKey(phone) ==
    IF ~users[phone].exists \/ Len(users[phone].tokenEnc) # 2 THEN NoToken
    ELSE users[phone].tokenEnc[2]

\* getToken
getToken(phone) ==
    IF ~users[phone].exists THEN NoToken
    ELSE IF decrypt(users[phone].tokenEnc, EncryptionSecret) = "throws" THEN NoToken
    ELSE decrypt(users[phone].tokenEnc, EncryptionSecret)

\* a user record that exists keeps the token it has
saveTokenKeepsFirst(phone, token) ==
    [users EXCEPT ![phone] =
        IF @.exists THEN @
        ELSE [exists |-> TRUE, tokenEnc |-> encrypt(token, EncryptionSecret),
              activeRepoId |-> NoRepo]]

\* saveToken: the users table after the save
saveToken(phone, token) ==
    [users EXCEPT ![phone] =
        IF @.exists
        THEN [@ EXCEPT !.tokenEnc = encrypt(token, EncryptionSecret)]
        ELSE [exists |-> TRUE, tokenEnc |-> encrypt(token, EncryptionSecret),
              activeRepoId |-> NoRepo]]

\* what getActiveRepo returns when there is no active repository (undefined)
NoActiveRepo == [id |-> NoRepo, phone |-> "", repoUrl |-> <<>>, localPath |-> NoRepo]

\* getActiveRepo: the record, or NoActiveRepo
getActiveRepo(phone) ==
    IF ~users[phone].exists \/ users[phone].activeRepoId = NoRepo THEN NoActiveRepo
    ELSE IF \E i \in 1..Len(repos) : repos[i].id = users[phone].activeRepoId
         THEN repos[CHOOSE i \in 1..Len(repos) :
                        /\ repos[i].id = users[phone].activeRepoId
                        /\ \A k \in 1..(i - 1) : repos[k].id # users[phone].activeRepoId]
         ELSE NoActiveRepo

RepoUrl1 == <<"u","r","l","1">>

\* a repository cloned in an earlier process lifetime (the db file persists)
Repo1 == [id |-> 1, phone |-> "5493764177993", repoUrl |-> RepoUrl1, localPath |-> 1]

\* db.json as found at start-up: empty, or a saved token and an active clone
DbAtStart ==
    { [users |-> [p \in Ids |-> NoUser], repos |-> <<>>],
      [users |-> [p \in Ids |-> [exists |-> TRUE,
                                 tokenEnc |-> encrypt(Token1, EncryptionSecret),
                                 activeRepoId |-> 1]],
       repos |-> <<Repo1>>] }

\* the phase the router sees, in the order it tests the flags
Phase(st) ==
    IF st.waitingForCommit THEN "AwaitingCommitConfirmation"
    ELSE IF st.waitingForDeployConfirm THEN "AwaitingDeployConfirmation"
    ELSE "Idle"

\* a slot in which no call of handleMessage has run yet
FreeRun ==
    [who |-> "", text |-> <<>>, branch |-> "", pc |-> "free",
     phaseAt |-> "Idle", sent |-> <<>>, logged |-> FALSE,
     repoPath |-> NoRepo, lastPrompt |-> <<>>, entry |-> 0,
     yes |-> FALSE, activeRepo |-> NoActiveRepo,
     janito |-> [success |-> FALSE, output |-> FALSE, status |-> "none"],
     git |-> "none", push |-> "none", vercel |-> "none", deployed |-> "none",
     deploy |-> "none", previewed |-> FALSE]

\* githubReposCache[jid] before the first /repos: undefined
NoCache == <<>>

\* getVercelToken found nothing: the token parameter is undefined
NoVercelToken == <<>>

\* no message has been handled yet
NoEvent == [kind |-> "none", from |-> "", text |-> <<>>, branch |-> ""]

\* the module-level maps of the handler and the logger at process start
StoreAtStart(ids) ==
    /\ githubReposCache = [p \in ids |-> NoCache]
    /\ conversationHistory = [p \in ids |-> <<>>]
    /\ outbox = [p \in ids |-> {}]
    /\ log = {}
    /\ ops = {}
    /\ now = 1
    /\ event = NoEvent
    /\ handled = 0
    /\ appends = [p \in ids |-> 0]
    /\ vercelTokens = [p \in ids |-> NoVercelToken]

InitCommon ==
    /\ userState = [p \in Ids |-> NoUserState]
    /\ \E db \in DbAtStart : users = db.users /\ repos = db.repos
    /\ nextRepoId = Len(repos) + 1
    /\ StoreAtStart(Ids)
    /\ runs = [s \in 1..MaxInFlight |-> FreeRun]
    /\ commits = [p \in Ids |-> [e \in 1..MaxEntries |-> 0]]
    /\ entries = [p \in Ids |-> 0]
    /\ aiEnabled \in BOOLEAN

Init == InitCommon /\ faults = FALSE

InitFaults == InitCommon /\ faults = TRUE

(***************************************************************************)
(* Runs of handleMessage                                                   *)
(***************************************************************************)
Slots == 1..MaxInFlight

\* the runs suspended at an await, or about to return
InFlight == {r \in Slots : runs[r].pc # "free"}

\* a new messages.upsert event can be handled
CanDeliver ==
    Cardinality(InFlight) < (IF faults THEN MaxInFlightFaults ELSE MaxInFlight)

\* the slot the next run takes
FreeSlot == CHOOSE s \in Slots \ InFlight : \A k \in Slots \ InFlight : s <= k

\* the run started by a message: its locals and what it has sent so far
NewRun(who, t, branch) ==
    [FreeRun EXCEPT !.who = who, !.text = t, !.branch = branch, !.pc = "start",
                    !.phaseAt = Phase(userState[who])]

\* what the router computes from a text, for each inbound text
Routes ==
    [t \in Texts |-> [hasToken \in BOOLEAN |-> [waitingForCommit \in BOOLEAN |->
        [waitingForDeployConfirm \in BOOLEAN |->
            route(t, hasToken, waitingForCommit, waitingForDeployConfirm)]]]]

\* the branch handleMessage takes for text t of who, in the current state
Branch(who, t) ==
    Routes[t][getToken(who) # NoToken][userState[who].waitingForCommit]
          [userState[who].waitingForDeployConfirm]

\* the run in slot r moves on to nr
Continue(r, nr) == runs' = [runs EXCEPT ![r] = nr]

\* handleMessage returns
Return(r) ==
    /\ runs[r].pc = "done"
    /\ runs' = [runs EXCEPT ![r] = FreeRun]
    /\ UNCHANGED storeVars
    /\ UNCHANGED <<userState, users, repos, commits, entries, aiEnabled, faults>>

\* sock.sendMessage resolves, or (network faults) may reject
SendResults == IF faults THEN {TRUE, FALSE} ELSE {TRUE}

Reply(tag, pc) == [tag |-> tag, pc |-> pc]

\* A chain of sends: chain[1] is the reply the code sends first; chain[k + 1]
\* is the reply sent by the catch block that receives a rejection of
\* chain[k]'s send.  The run continues at the pc of the send that resolved;
\* when every send rejects, the catch-all of handleMessage logs the error.
SendChain(run, chain) ==
    { [run EXCEPT !.sent = Append(@, chain[k].tag), !.pc = chain[k].pc] :
        k \in {j \in 1..Len(chain) : j = 1 \/ FALSE \in SendResults} }
    \cup
    { [run EXCEPT !.logged = TRUE, !.pc = "done"] : x \in SendResults \ {TRUE} }

\* branches that only render a reply
ReplyBranches == {"greeting", "help", "gate", "local", "current"}

\* greeting, /help, the token gate, /local, /current
DeliverReply(who, t) ==
    /\ CanDeliver
    /\ Branch(who, t) \in ReplyBranches
    /\ \E nr \in SendChain(NewRun(who, t, Branch(who, t)),
                           <<Reply(Branch(who, t), "done")>>) :
          Continue(FreeSlot, nr)
    /\ UNCHANGED storeVars
    /\ UNCHANGED <<userState, users, repos, commits, entries,
                   aiEnabled, faults>>

\* db.write() returns, or (storage faults) throws
WriteResults == IF faults THEN {TRUE, FALSE} ELSE {TRUE}

\* a GitHub token anywhere in the text is saved; a write that throws leaves
\* the record in memory and takes the run to the catch-all
DeliverToken(who, t) ==
    /\ CanDeliver
    /\ Branch(who, t) = "token"
    /\ users' = saveToken(who, detectGitHubToken(t))
    /\ \E written \in WriteResults :
       \E nr \in IF written
                 THEN SendChain(NewRun(who, t, "token"),
                                <<Reply("token-saved", "done")>>)
                 ELSE {[NewRun(who, t, "token") EXCEPT !.logged = TRUE,
                                                      !.pc = "done"]} :
          Continue(FreeSlot, nr)
    /\ UNCHANGED storeVars
    /\ UNCHANGED <<userState, repos, commits, entries, aiEnabled, faults>>

\* /(?:repo|repositor)/i
isRepoQuestion(t) == includes(toLowerCase(t), <<"r","e","p","o">>)

\* the reply of the catch around the AI fallback
AiError == Reply("error-processing", "done")

\* no command matched: the AI collaborator answers, or the text is echoed
DeliverFallback(who, t) ==
    /\ CanDeliver
    /\ Branch(who, t) = "fallback"
    /\ \E nr \in
          IF ~aiEnabled
          THEN SendChain(NewRun(who, t, "fallback"), <<Reply("echo", "done"), AiError>>)
          ELSE IF isRepoQuestion(t) /\ getToken(who) # NoToken
          THEN SendChain(NewRun(who, t, "fallback"),
                         <<Reply("repos-not-cached", "done"), AiError>>)
          ELSE {[NewRun(who, t, "fallback") EXCEPT !.pc = "ai"]} :
          Continue(FreeSlot, nr)
    /\ UNCHANGED storeVars
    /\ UNCHANGED <<userState, users, repos, commits, entries,
                   aiEnabled, faults>>

\* chatWithRepoFunctions returned or threw
AiDone(r) ==
    /\ runs[r].pc = "ai"
    /\ \E answered \in BOOLEAN :
       \E nr \in SendChain(runs[r],
                    IF answered THEN <<Reply("ai-response", "done"), AiError>>
                    ELSE <<AiError>>) :
          Continue(r, nr)
    /\ UNCHANGED storeVars
    /\ UNCHANGED <<userState, users, repos, commits, entries,
                   aiEnabled, faults>>

(***************************************************************************)
(* /vibe: the AI code-editing agent                                        *)
(***************************************************************************)
\* the edits an identity has asked for and whose agent has not closed yet
Editing(who) == {r \in Slots : runs[r].pc = "v_run" /\ runs[r].who = who}

DeliverVibe(who, t) ==
    /\ CanDeliver
    /\ Branch(who, t) = "vibe"
    /\ entries[who] + Cardinality(Editing(who)) < MaxEntries
    /\ LET activeRepo == getActiveRepo(who)
           run == NewRun(who, t, "vibe")
       IN  \E nr \in
              IF activeRepo = NoActiveRepo
              THEN SendChain(run, <<Reply("no-active-repo", "done")>>)
              ELSE IF promptForJanito(t) = <<>>
              THEN SendChain(run, <<Reply("need-prompt", "done")>>)
              ELSE SendChain([run EXCEPT !.repoPath = activeRepo.localPath,
                                         !.lastPrompt = promptForJanito(t)],
                             <<Reply("editing-started", "v_run")>>) :
              Continue(FreeSlot, nr)
    /\ UNCHANGED storeVars
    /\ UNCHANGED <<userState, users, repos, commits, entries,
                   aiEnabled, faults>>

\* what runJanitoWithProgress observes: the exit code, whether the agent
\* printed anything, and `git status --porcelain` (run only after a
\* successful exit with output)
JanitoOutcomes ==
    { [success |-> FALSE, output |-> FALSE, status |-> "unchecked"],
      [success |-> TRUE,  output |-> FALSE, status |-> "unchecked"],
      [success |-> TRUE,  output |-> TRUE,  status |-> "dirty"],
      [success |-> TRUE,  output |-> TRUE,  status |-> "clean"],
      [success |-> TRUE,  output |-> TRUE,  status |-> "error"] }

\* any output of a successful run counts as a change
hasChangesOnOutput(o) == o.success /\ o.output

\* hasChanges as runJanitoWithProgress resolves it
hasChanges(o) ==
    /\ o.success
    /\ o.output
    /\ (o.status = "error" \/ o.status = "dirty")

\* the flag is set on the state object that is already there
armCommitInPlace(st, repoPath, lastPrompt, entry) ==
    [st EXCEPT !.repoPath = repoPath, !.waitingForCommit = TRUE,
               !.lastPrompt = lastPrompt, !.entry = entry]

\* userState[remoteJid] = { repoPath, waitingForCommit: true, lastPrompt }
armCommit(st, repoPath, lastPrompt, entry) ==
    [repoPath |-> repoPath, waitingForCommit |-> TRUE,
     waitingForDeployConfirm |-> FALSE, lastPrompt |-> lastPrompt, entry |-> entry]

\* if (result.success && result.hasChanges)
armsCommit(o) == o.success /\ hasChanges(o)

\* the reply of the catch around the edit
EditError == Reply("edit-error", "done")

\* the agent process closed
VibeDone(r) ==
    /\ runs[r].pc = "v_run"
    /\ \E o \in JanitoOutcomes :
       LET who == runs[r].who
           run == [runs[r] EXCEPT
                     !.janito = o,
                     !.sent = IF o.success /\ o.output THEN Append(@, "progress") ELSE @,
                     !.entry = IF armsCommit(o) THEN entries[who] + 1 ELSE @]
       IN  /\ IF armsCommit(o)
              THEN /\ userState' = [userState EXCEPT ![who] =
                          armCommit(@, runs[r].repoPath, runs[r].lastPrompt,
                                    entries[who] + 1)]
                   /\ entries' = [entries EXCEPT ![who] = @ + 1]
              ELSE UNCHANGED <<userState, entries>>
           /\ \E nr \in SendChain(run,
                    IF armsCommit(o) THEN <<Reply("commit-prompt", "done"), EditError>>
                    ELSE IF o.success THEN <<Reply("no-changes", "done"), EditError>>
                    ELSE <<Reply("edit-failed", "done"), EditError>>) :
                 Continue(r, nr)
    /\ UNCHANGED storeVars
    /\ UNCHANGED <<users, repos, commits, aiEnabled, faults>>

(***************************************************************************)
(* Commit confirmation                                                     *)
(***************************************************************************)
\* the catch block returns after its reply
CommitFailedReturns == Reply("commit-but-push-failed", "done")

\* the reply of the catch (pushErr) block, then line 961
CommitFailed == Reply("commit-but-push-failed", "c_end")

\* the fallback prompt of the catch around the deployment check, then the
\* catch (pushErr) block
PromptAgain == <<Reply("deploy-prompt", "c_prompt"), CommitFailed>>

\* a diff image of the e-th armed edit of who has been sent by a run that has
\* not returned yet
PreviewShown(who, e) ==
    \E q \in Slots :
        /\ runs[q].who = who
        /\ runs[q].entry = e
        /\ \E k \in 1..Len(runs[q].sent) : runs[q].sent[k] = "diff-image"

\* a message arrives while userState[remoteJid].waitingForCommit is set
DeliverCommit(who, t) ==
    /\ CanDeliver
    /\ Branch(who, t) = "commit"
    /\ commits[who][userState[who].entry] < MaxCommits
    /\ LET st == userState[who]
           run == [NewRun(who, t, "commit") EXCEPT
                      !.repoPath = st.repoPath,
                      !.lastPrompt = st.lastPrompt,
                      !.entry = st.entry,
                      !.activeRepo = getActiveRepo(who),
                      !.yes = isCommitYes(t),
                      !.previewed = PreviewShown(who, st.entry)]
       IN  IF isCommitYes(t)
           THEN /\ \E nr \in SendChain(run, <<Reply("diff-preview-notice", "c_git")>>) :
                      Continue(FreeSlot, nr)
                /\ UNCHANGED userState
           ELSE /\ userState' = [userState EXCEPT ![who].waitingForCommit = FALSE]
                /\ \E nr \in SendChain(run, <<Reply("commit-cancelled", "done")>>) :
                      Continue(FreeSlot, nr)
    /\ UNCHANGED storeVars
    /\ UNCHANGED <<users, repos, commits, entries, aiEnabled, faults>>

\* the run after git add and git commit ended, and its report
AfterGit(run, gitOk) ==
    IF ~gitOk
    THEN SendChain([run EXCEPT !.git = "failed"], <<CommitFailed>>)
    ELSE IF getToken(run.who) # NoToken
    THEN {[run EXCEPT !.git = "committed", !.pc = "c_push"]}
    ELSE SendChain([run EXCEPT !.git = "committed"],
                   <<Reply("committed-locally", "c_end"), CommitFailed>>)

\* sendDiffImage (with the notice sent when no image could be made),
\* generateCommitMessage, then git add and git commit
CommitGit(r) ==
    /\ runs[r].pc = "c_git"
    /\ \E imageSent \in BOOLEAN, gitOk \in BOOLEAN :
       \E nr \in
          AfterGit([runs[r] EXCEPT
                      !.sent = Append(@, IF imageSent THEN "diff-image"
                                                      ELSE "no-diff-image")], gitOk)
          \cup
          { [runs[r] EXCEPT !.logged = TRUE, !.pc = "done"] :
               x \in IF imageSent THEN {} ELSE SendResults \ {TRUE} } :
          /\ Continue(r, nr)
          /\ commits' = IF nr.git = "committed"
                        THEN [commits EXCEPT ![nr.who][nr.entry] = @ + 1]
                        ELSE commits
    /\ UNCHANGED storeVars
    /\ UNCHANGED <<userState, users, repos, entries, aiEnabled, faults>>

\* git push with the token in the remote URL
CommitPush(r) ==
    /\ runs[r].pc = "c_push"
    /\ \E pushOk \in BOOLEAN :
       \E nr \in IF pushOk
                 THEN SendChain([runs[r] EXCEPT !.push = "pushed"],
                                <<Reply("pushed", "c_pushed"), CommitFailed>>)
                 ELSE SendChain([runs[r] EXCEPT !.push = "failed"], <<CommitFailed>>) :
          Continue(r, nr)
    /\ UNCHANGED storeVars
    /\ UNCHANGED <<userState, users, repos, commits, entries,
                   aiEnabled, faults>>

\* after the push was reported: is the deployment tool installed?
CommitVercel(r) ==
    /\ runs[r].pc = "c_pushed"
    /\ \E installed \in BOOLEAN :
       IF installed
       THEN /\ Continue(r, [runs[r] EXCEPT !.vercel = "installed", !.pc = "c_check"])
            /\ UNCHANGED userState
       ELSE /\ Continue(r, [runs[r] EXCEPT !.vercel = "missing", !.pc = "done"])
            /\ userState' = [userState EXCEPT ![runs[r].who].waitingForCommit = FALSE]
    /\ UNCHANGED storeVars
    /\ UNCHANGED <<users, repos, commits, entries, aiEnabled, faults>>

\* what isProjectDeployed reports, or that it threw
DeployedResults == {"no", "yes", "throws"}

\* the prompt is sent whatever the deployment check said
afterCheckAlwaysPrompt(d) == <<Reply("deploy-prompt", "c_prompt")>> \o PromptAgain

\* what the commit branch sends once the deployment check has ended with d
afterCheck(d) ==
    IF d = "yes" THEN <<Reply("auto-deploying", "c_auto")>> \o PromptAgain
    ELSE IF d = "no" THEN <<Reply("deploy-prompt", "c_prompt")>> \o PromptAgain
    ELSE PromptAgain

\* isProjectDeployed returned (or threw)
CommitDeployed(r) ==
    /\ runs[r].pc = "c_check"
    /\ \E d \in DeployedResults :
       \E nr \in SendChain([runs[r] EXCEPT !.deployed = d], afterCheck(d)) :
          Continue(r, nr)
    /\ UNCHANGED storeVars
    /\ UNCHANGED <<userState, users, repos, commits, entries,
                   aiEnabled, faults>>

\* the deploy prompt was sent: the deploy confirmation is armed and, with no
\* await in between, line 961 clears the commit confirmation
CommitPrompt(r) ==
    /\ runs[r].pc = "c_prompt"
    /\ userState' = [userState EXCEPT
                        ![runs[r].who].waitingForDeployConfirm = TRUE,
                        ![runs[r].who].waitingForCommit = FALSE]
    /\ Continue(r, [runs[r] EXCEPT !.pc = "done"])
    /\ UNCHANGED storeVars
    /\ UNCHANGED <<users, repos, commits, entries, aiEnabled, faults>>

\* results of deployToVercelWithGitHub
DeployResults == {"deployed", "failed"}

\* the replies of the catches around the automatic redeployment
AutoFailed == <<Reply("auto-deploy-failed", "c_end")>> \o PromptAgain

\* the project is already deployed: redeploy without asking
CommitAuto(r) ==
    /\ runs[r].pc = "c_auto"
    /\ IF runs[r].activeRepo = NoActiveRepo
       THEN \E nr \in SendChain(runs[r],
                         <<Reply("no-active-repo", "c_end")>> \o AutoFailed) :
               Continue(r, nr)
       ELSE \E res \in DeployResults :
            \E nr \in SendChain([runs[r] EXCEPT !.deploy = res],
                         <<Reply("deploy-result", "c_end")>> \o AutoFailed) :
               Continue(r, nr)
    /\ UNCHANGED storeVars
    /\ UNCHANGED <<userState, users, repos, commits, entries,
                   aiEnabled, faults>>

\* the last reply of the commit branch was sent: line 961
CommitEnd(r) ==
    /\ runs[r].pc = "c_end"
    /\ userState' = [userState EXCEPT ![runs[r].who].waitingForCommit = FALSE]
    /\ Continue(r, [runs[r] EXCEPT !.pc = "done"])
    /\ UNCHANGED storeVars
    /\ UNCHANGED <<users, repos, commits, entries, aiEnabled, faults>>

(***************************************************************************)
(* Deploy confirmation                                                     *)
(***************************************************************************)
\* a message arrives while waitingForDeployConfirm is set
DeliverDeployConfirm(who, t) ==
    /\ CanDeliver
    /\ Branch(who, t) = "deployconfirm"
    /\ LET activeRepo == getActiveRepo(who)
           run == [NewRun(who, t, "deployconfirm") EXCEPT
                      !.activeRepo = activeRepo, !.yes = isDeployYes(t)]
       IN  \E nr \in SendChain(run,
                 IF ~isDeployYes(t) THEN <<Reply("deploy-skipped", "d_end")>>
                 ELSE IF activeRepo = NoActiveRepo
                 THEN <<Reply("no-active-repo", "d_end")>>
                 ELSE <<Reply("deploy-starting", "d_run")>>) :
              Continue(FreeSlot, nr)
    /\ UNCHANGED storeVars
    /\ UNCHANGED <<userState, users, repos, commits, entries,
                   aiEnabled, faults>>

\* deployToVercelWithGitHub returned
DeployRun(r) ==
    /\ runs[r].pc = "d_run"
    /\ \E res \in DeployResults :
       \E nr \in SendChain([runs[r] EXCEPT !.deploy = res],
                           <<Reply("deploy-result", "d_end")>>) :
          Continue(r, nr)
    /\ UNCHANGED storeVars
    /\ UNCHANGED <<userState, users, repos, commits, entries,
                   aiEnabled, faults>>

\* the branch returns without clearing the flag
DeployEndKeepsFlag(r) ==
    /\ runs[r].pc = "d_end"
    /\ Continue(r, [runs[r] EXCEPT !.pc = "done"])
    /\ UNCHANGED storeVars
    /\ UNCHANGED <<userState, users, repos, commits, entries, aiEnabled, faults>>

\* the outcome was sent: line 1003
DeployEnd(r) ==
    /\ runs[r].pc = "d_end"
    /\ userState' = [userState EXCEPT ![runs[r].who].waitingForDeployConfirm = FALSE]
    /\ Continue(r, [runs[r] EXCEPT !.pc = "done"])
    /\ UNCHANGED storeVars
    /\ UNCHANGED <<users, repos, commits, entries, aiEnabled, faults>>

(***************************************************************************)
(* Specification                                                           *)
(***************************************************************************)
Next ==
    \/ \E who \in Ids, t \in Texts : DeliverReply(who, t)
    \/ \E who \in Ids, t \in Texts : DeliverToken(who, t)
    \/ \E who \in Ids, t \in Texts : DeliverFallback(who, t)
    \/ \E who \in Ids, t \in Texts : DeliverVibe(who, t)
    \/ \E who \in Ids, t \in Texts : DeliverCommit(who, t)
    \/ \E who \in Ids, t \in Texts : DeliverDeployConfirm(who, t)
    \/ \E r \in Slots : Return(r)
    \/ \E r \in Slots : AiDone(r)
    \/ \E r \in Slots : VibeDone(r)
    \/ \E r \in Slots : CommitGit(r)
    \/ \E r \in Slots : CommitPush(r)
    \/ \E r \in Slots : CommitVercel(r)
    \/ \E r \in Slots : CommitDeployed(r)
    \/ \E r \in Slots : CommitPrompt(r)
    \/ \E r \in Slots : CommitAuto(r)
    \/ \E r \in Slots : CommitEnd(r)
    \/ \E r \in Slots : DeployRun(r)
    \/ \E r \in Slots : DeployEnd(r)

Spec == Init /\ [][Next]_vars

\* the same program on a network where sock.sendMessage may reject
SpecFaults == InitFaults /\ [][Next]_vars

(***************************************************************************)
(* Properties                                                              *)
(***************************************************************************)
\* run r is started by this step
Starts(r) == runs[r].pc = "free" /\ runs'[r].pc # "free"

\* run r reaches its return in this step
Finishes(r) == runs[r].pc # "done" /\ runs'[r].pc = "done"

\* the text holds a match of ghp_/gho_/ghu_/ghs_ and 36 letters or digits
HasTokenPattern(t) == \E i \in 1..Len(t) : TokenAt(t, i)

\* C1: a text without a token pattern that arrives while a commit or deploy
\* confirmation is pending is taken as the reply to that confirmation, never
\* dispatched as a command.
C1_PendingTextIsTheReply ==
    \A r \in Slots :
        (/\ runs[r].pc # "free"
         /\ runs[r].phaseAt # "Idle"
         /\ ~HasTokenPattern(runs[r].text))
        => runs[r].branch \in {"commit", "deployconfirm"}

C3_OneCommitPerEntry ==
    \A p \in Ids : \A e \in 1..MaxEntries : commits[p][e] <= 1

\* C4: between handler steps, waitingForCommit and waitingForDeployConfirm
\* are never both set for an identity.
C4_PhasesExclusive ==
    \A p \in Ids :
        ~(userState[p].waitingForCommit /\ userState[p].waitingForDeployConfirm)

\* an edit asked for while the deploy confirmation was pending has armed the
\* commit confirmation
C4_ArmedAfterDeployPrompt ==
    \E r \in Slots :
        /\ runs[r].branch = "vibe"
        /\ runs[r].pc = "done"
        /\ runs[r].phaseAt = "AwaitingDeployConfirmation"
        /\ runs[r].entry # 0
        /\ userState[runs[r].who].entry = runs[r].entry
        /\ userState[runs[r].who].waitingForCommit

\* the agent of run r closes in this step
VibeCloses(r) == runs[r].pc = "v_run" /\ runs'[r].pc # "v_run"

\* the commit confirmation of p is armed in this step
Armed(p) == userState'[p].entry # userState[p].entry

\* C5 as stated: the commit confirmation is armed only when an edit run that
\* exited successfully closes with a detected working-tree change; a run that
\* fails or changes nothing leaves the phase Idle.
C5_ArmedOnlyOnDetectedChange ==
    [][/\ \A p \in Ids :
             Armed(p) => \E r \in Slots :
                            /\ runs[r].who = p
                            /\ VibeCloses(r)
                            /\ runs'[r].janito.success
                            /\ runs'[r].janito.status = "dirty"
       /\ \A r \in Slots :
             (/\ VibeCloses(r)
              /\ ~(runs'[r].janito.success /\ runs'[r].janito.status = "dirty"))
             => Phase(userState'[runs[r].who]) = "Idle"]_vars

\* C5, amended: the commit confirmation is armed only when an edit run closes
\* that exited successfully with output and whose working-tree check found a
\* change or could not be made; any other run leaves the phase as it was.
C5_ArmedUnlessChangeRuledOut ==
    [][/\ \A p \in Ids :
             Armed(p) => \E r \in Slots :
                            /\ runs[r].who = p
                            /\ VibeCloses(r)
                            /\ runs'[r].janito.success
                            /\ runs'[r].janito.output
                            /\ runs'[r].janito.status \in {"dirty", "error"}
       /\ \A r \in Slots :
             (/\ VibeCloses(r)
              /\ ~(/\ runs'[r].janito.success
                   /\ runs'[r].janito.output
                   /\ runs'[r].janito.status \in {"dirty", "error"}))
             => userState' = userState]_vars

\* an edit whose working-tree check failed has armed the commit confirmation
C5_ArmedAfterFailedCheck ==
    \E r \in Slots :
        /\ runs[r].branch = "vibe"
        /\ runs[r].pc = "done"
        /\ runs[r].janito.status = "error"
        /\ userState[runs[r].who].waitingForCommit
        /\ userState[runs[r].who].entry = runs[r].entry

LowerContains(t, pat) ==
    \E i \in 1..Len(t) :
        /\ i + Len(pat) - 1 <= Len(t)
        /\ \A k \in 1..Len(pat) :
              (IF t[i + k - 1] \in UpperLetters THEN LowerOf[t[i + k - 1]]
               ELSE t[i + k - 1]) = pat[k]

\* C9: a reply to the commit confirmation is handled as affirmative exactly
\* when its lower-cased text contains "yes" or "y", a reply to the deploy
\* confirmation exactly when it contains "deploy", "yes" or "y"; any other
\* reply is declined and runs no commit, push or deployment.
C9_AffirmativeByContainment ==
    \A r \in Slots :
        /\ (runs[r].pc # "free" /\ runs[r].branch = "commit") =>
              /\ (runs[r].sent[1] = "diff-preview-notice")
                    <=> (\/ LowerContains(runs[r].text, <<"y","e","s">>)
                         \/ LowerContains(runs[r].text, <<"y">>))
              /\ (runs[r].sent[1] # "diff-preview-notice")
                    => /\ runs[r].sent = <<"commit-cancelled">>
                       /\ runs[r].git = "none"
                       /\ runs[r].push = "none"
                       /\ runs[r].deploy = "none"
        /\ (runs[r].pc # "free" /\ runs[r].branch = "deployconfirm") =>
              /\ (runs[r].sent[1] # "deploy-skipped")
                    <=> (\/ LowerContains(runs[r].text, <<"d","e","p","l","o","y">>)
                         \/ LowerContains(runs[r].text, <<"y","e","s">>)
                         \/ LowerContains(runs[r].text, <<"y">>))
              /\ (runs[r].sent[1] = "deploy-skipped")
                    => /\ runs[r].sent = <<"deploy-skipped">>
                       /\ runs[r].deploy = "none"

\* the reply "deploy" to the commit confirmation was committed and pushed,
\* and the reply "no" to the deploy confirmation was declined
C9_DeployWordCommits ==
    /\ \E r \in Slots :
          /\ runs[r].branch = "commit"
          /\ runs[r].text = T_deploy
          /\ runs[r].push = "pushed"
    /\ \E r \in Slots :
          /\ runs[r].branch = "deployconfirm"
          /\ runs[r].text = T_no
          /\ runs[r].pc = "done"

\* C10: every run of handleMessage for an accepted text has sent at least
\* one reply when it returns, also when a step inside it threw.
C10_EveryRunReplies ==
    \A r \in Slots : runs[r].pc = "done" => Len(runs[r].sent) >= 1

\* the replies that tell the identity its changes were committed
CommittedReplies == {"commit-but-push-failed", "committed-locally", "pushed"}

\* C11: a run in which git add or git commit failed, so that no commit was
\* created, never tells the identity that the changes were committed.
C11_FailedCommitNotReportedCommitted ==
    \A r \in Slots :
        runs[r].git = "failed" =>
            \A k \in 1..Len(runs[r].sent) : runs[r].sent[k] \notin CommittedReplies

(***************************************************************************)
(* The history buffer                                                      *)
(***************************************************************************)
\* the number that passes both allow-lists, the number only
\* config.allowedPhones holds, and a number neither list holds
JidA == "5493764177993"
JidB == "5491132986313"
JidX == "5490000000000"

\* the chats the bot can be written to from
Jids == {JidA, JidB, JidX}

\* "Keep only last 20 messages"
HistoryLimit == 20

\* appends to one identity's buffer in a behaviour
MaxAppends == 25

\* the buffer keeps its oldest entries
addToHistoryKeepOldest(hist, userJid, role, content) ==
    LET pushed == Append(hist[userJid], [role |-> role, content |-> content])
    IN  [hist EXCEPT ![userJid] =
            IF Len(pushed) > HistoryLimit
            THEN SubSeq(pushed, 1, HistoryLimit)
            ELSE pushed]

\* addToHistory: push, then slice(-20) once the buffer is longer than 20
addToHistory(hist, userJid, role, content) ==
    LET pushed == Append(hist[userJid], [role |-> role, content |-> content])
    IN  [hist EXCEPT ![userJid] =
            IF Len(pushed) > HistoryLimit
            THEN SubSeq(pushed, Len(pushed) - HistoryLimit + 1, Len(pushed))
            ELSE pushed]

\* the confirmation runs are at rest while the store operations are examined
RunsAtRest ==
    /\ runs = [s \in 1..MaxInFlight |-> FreeRun]
    /\ commits = [p \in Jids |-> [e \in 1..MaxEntries |-> 0]]
    /\ entries = [p \in Jids |-> 0]
    /\ aiEnabled = TRUE
    /\ faults = FALSE

InitHistory ==
    /\ userState = [p \in Jids |-> NoUserState]
    /\ users = [p \in Jids |-> NoUser]
    /\ repos = <<>>
    /\ nextRepoId = 1
    /\ RunsAtRest
    /\ StoreAtStart(Jids)

\* the role of the n-th entry of a conversation: the turns alternate
RoleOf(n) == IF n % 2 = 1 THEN "user" ELSE "assistant"

\* one call of addToHistory; the content of the n-th call for a jid is n
AppendEntry(jid) ==
    /\ appends[jid] < MaxAppends
    /\ conversationHistory' =
          addToHistory(conversationHistory, jid, RoleOf(appends[jid] + 1),
                       appends[jid] + 1)
    /\ appends' = [appends EXCEPT ![jid] = @ + 1]
    /\ UNCHANGED <<userState, users, repos, runVars, vercelTokens, nextRepoId,
                   githubReposCache, outbox, log, ops, now, event, handled>>

NextHistory == \E jid \in {JidA, JidB} : AppendEntry(jid)

SpecHistory == InitHistory /\ [][NextHistory]_vars

Min(a, b) == IF a < b THEN a ELSE b

\* C19: after n appends an identity's buffer holds exactly min(n, 20)
\* entries, and they are the most recently appended ones in their order.
C19_HistoryKeepsLastTwenty ==
    \A jid \in Jids :
        LET h == conversationHistory[jid]
            n == appends[jid]
        IN  /\ Len(h) = Min(n, 20)
            /\ \A k \in 1..Len(h) :
                  /\ h[k].content = n - Len(h) + k
                  /\ h[k].role = RoleOf(n - Len(h) + k)

\* after 25 appends the buffer holds the entries 6 to 25
C19_TwentyFiveAppends ==
    /\ appends[JidA] = 25
    /\ Len(conversationHistory[JidA]) = 20
    /\ conversationHistory[JidA][1].content = 6
    /\ conversationHistory[JidA][20].content = 25

(***************************************************************************)
(* What a confirmation run writes to the history buffer                    *)
(***************************************************************************)
\* the replies whose sock.sendMessage is not followed by addToHistory
UnrecordedReplies ==
    {"no-active-repo", "need-prompt", "editing-started", "progress",
     "diff-preview-notice", "diff-image", "no-diff-image", "deploy-starting"}

IsRecorded(tag) == tag \notin UnrecordedReplies

\* the entries a run has appended to conversationHistory[who]: the inbound
\* text first, then each reply that addToHistory was called for
historyOf(run) ==
    <<[role |-> "user", content |-> run.text]>> \o
    [k \in 1..Len(SelectSeq(run.sent, IsRecorded)) |->
        [role |-> "assistant", content |-> SelectSeq(run.sent, IsRecorded)[k]]]

\* C20: every reply a run has sent is in the history buffer as an assistant
\* entry, after the entry of the inbound text.
C20_EveryReplyRecorded ==
    \A r \in Slots :
        runs[r].pc # "free" =>
            /\ historyOf(runs[r])[1] = [role |-> "user", content |-> runs[r].text]
            /\ \A k \in 1..Len(runs[r].sent) :
                  \E h \in 2..Len(historyOf(runs[r])) :
                      historyOf(runs[r])[h].content = runs[r].sent[k]

(***************************************************************************)
(* The Vercel command lines (utils/vercel.ts)                              *)
(*                                                                         *)
(* A rendered string is a sequence of strings: a value interpolated into   *)
(* a template contributes its characters, a literal piece of the template  *)
(* is one element.                                                         *)
(***************************************************************************)
\* validateVercelToken: token.length < 20 is rejected
VercelTokenMinLen == 20

VercelToken1 == [i \in 1..VercelTokenMinLen |-> "v"]
VercelToken2 == [i \in 1..(VercelTokenMinLen + 1) |-> "w"]
ShortToken   == <<"v", "v">>

\* the deployment credentials a call may be given
VercelTokens == {VercelToken1, VercelToken2}

ProjectPath == <<"./repos/1">>

\* calls of the Vercel functions in a behaviour
MaxCalls == 2

\* validateVercelToken
validateVercelToken(token) ==
    /\ token # NoVercelToken
    /\ Len(trim(token)) >= VercelTokenMinLen
    /\ \A i \in 1..Len(trim(token)) : trim(token)[i] \notin {" ", "\n", "\t"}

\* `cd ${projectPath} && vercel <args> --token="${token}"`
vercelCmd(projectPath, args, token) ==
    <<"cd ">> \o projectPath \o <<" && vercel">> \o args \o
    (IF token # NoVercelToken THEN <<" --token=\"">> \o token \o <<"\"">> ELSE <<>>)

\* `vercel whoami --token="${token}"`
whoamiCmd(token) == <<"vercel whoami --token=\"">> \o token \o <<"\"">>

AuthStderr    == <<"Error: not authenticated">>
NetworkStderr == <<"Error: connect ETIMEDOUT">>

\* how a child process started by exec may end
ExecOutcomes ==
    { [failed |-> FALSE, killed |-> FALSE, stderr |-> <<>>, stdout |-> <<"out">>],
      [failed |-> TRUE,  killed |-> FALSE, stderr |-> <<>>, stdout |-> <<>>],
      [failed |-> TRUE,  killed |-> FALSE, stderr |-> AuthStderr, stdout |-> <<>>],
      [failed |-> TRUE,  killed |-> FALSE, stderr |-> NetworkStderr, stdout |-> <<>>],
      [failed |-> TRUE,  killed |-> TRUE,  stderr |-> <<>>, stdout |-> <<>>] }

\* the message of the error exec hands to its callback
errMessage(cmd, o) == <<"Command failed: ">> \o cmd \o <<"\n">> \o o.stderr

\* the signatures the authentication tests search stderr for
StderrAuthSignatures == {AuthStderr, <<"invalid token">>, <<"unauthorized">>}

\* the signatures the authentication tests search err.message for
MessageAuthSignatures == {AuthStderr, <<"401">>, <<"403">>}

\* "Check for common authentication errors"
isAuthError(cmd, o) ==
    \/ \E sig \in MessageAuthSignatures : includes(errMessage(cmd, o), sig)
    \/ \E sig \in StderrAuthSignatures : includes(o.stderr, sig)

\* getVercelStatus: the message it resolves with
statusMessage(cmd, o) ==
    IF o.failed
    THEN <<"Failed to check status: ">> \o errMessage(cmd, o) \o
         (IF o.stderr # <<>> THEN <<"Details: ">> \o o.stderr ELSE <<>>) \o
         (IF isAuthError(cmd, o) THEN <<"Authentication failed.">> ELSE <<>>)
    ELSE <<"Recent deployments: ">> \o o.stdout

\* getVercelLogs: the message it resolves with
logsMessage(cmd, o) ==
    IF o.failed
    THEN <<"Failed to fetch logs: ">> \o errMessage(cmd, o) \o
         (IF o.stderr # <<>> THEN <<"Details: ">> \o o.stderr ELSE <<>>) \o
         (IF isAuthError(cmd, o) THEN <<"Authentication failed.">> ELSE <<>>)
    ELSE <<"Recent Deployment Logs: ">> \o o.stdout

\* testVercelToken: the message it resolves with
tokenTestMessage(token, o) ==
    IF ~validateVercelToken(token) THEN <<"Token format appears invalid.">>
    ELSE IF ~o.failed THEN <<"Token is valid! Authenticated as: ">> \o o.stdout
    ELSE IF isAuthError(whoamiCmd(token), o)
    THEN <<"Token is invalid or expired. Please create a new token.">>
    ELSE <<"Token test failed: ">> \o errMessage(whoamiCmd(token), o)

\* the words of an output that match /https:\/\/[^\s]+\.vercel\.app/
UrlInspect == "https://app-inspect.vercel.app"
UrlLive    == "https://app.vercel.app"
VercelAppUrls == {UrlInspect, UrlLive}

IsVercelAppUrl(word) == word \in VercelAppUrls

\* output.match(/https:\/\/[^\s]+\.vercel\.app/g): the matches, in order
urlMatches(output) == SelectSeq(output, IsVercelAppUrl)

NoUrl == "undefined"

\* the first match only
firstUrl(stdout) ==
    IF urlMatches(stdout) = <<>> THEN NoUrl ELSE urlMatches(stdout)[1]

\* urlMatch ? urlMatch[urlMatch.length - 1] : undefined
deploymentUrl(stdout) ==
    IF urlMatches(stdout) = <<>> THEN NoUrl
    ELSE urlMatches(stdout)[Len(urlMatches(stdout))]

\* err.message.includes('timeout') || err.signal === 'SIGTERM'; exec sets
\* err.signal to its killSignal, SIGTERM, when it kills the child at the timeout
isTimeout(cmd, o) == includes(errMessage(cmd, o), <<"timeout">>) \/ o.killed

isBuildError(o) ==
    includes(o.stderr, <<"npm run build">>) /\ includes(o.stderr, <<"exited with 1">>)

isMissingFiles(o) == includes(o.stderr, <<"ENOENT">>) \/ includes(o.stderr, <<"not found">>)

\* the authentication test is made before the timeout test
deployBranchAuthFirst(cmd, o) ==
    IF ~o.failed THEN "success"
    ELSE IF isAuthError(cmd, o) THEN "auth"
    ELSE IF isTimeout(cmd, o) THEN "timeout"
    ELSE IF isBuildError(o) THEN "build"
    ELSE IF isMissingFiles(o) THEN "missing"
    ELSE "generic"

\* deployToVercel: the branch of the exec callback that resolves the promise
deployBranch(cmd, o) ==
    IF ~o.failed THEN "success"
    ELSE IF isTimeout(cmd, o) THEN "timeout"
    ELSE IF isAuthError(cmd, o) THEN "auth"
    ELSE IF isBuildError(o) THEN "build"
    ELSE IF isMissingFiles(o) THEN "missing"
    ELSE "generic"

\* lines of stderr the generic branch skips
NoiseLines == {"Vercel CLI 41.0.0"}

IsErrorLine(line) == line \notin NoiseLines

\* the lines of the failure message below its heading
failureDetails(o) ==
    (IF urlMatches(o.stderr) # <<>>
     THEN <<"Inspect URL:", urlMatches(o.stderr)[1]>> ELSE <<>>) \o
    (IF isBuildError(o)
     THEN <<"Build Error:", "Your project failed to build", "Test locally: npm run build">>
     ELSE IF isMissingFiles(o)
     THEN <<"Missing Files:", "Try: npm install to install dependencies">>
     ELSE (IF SelectSeq(o.stderr, IsErrorLine) # <<>>
           THEN <<"Error:", SelectSeq(o.stderr, IsErrorLine)[1]>> ELSE <<>>) \o
          <<"Debug: Use /vercel-logs for details">>)

\* deployToVercel: the message it resolves with
deployMessage(cmd, o) ==
    CASE deployBranch(cmd, o) = "success" ->
            <<"Deployment Successful!">> \o
            (IF deploymentUrl(o.stdout) # NoUrl
             THEN <<"Live URL:", deploymentUrl(o.stdout)>> ELSE <<>>) \o
            <<"Your project is now live!">>
      [] deployBranch(cmd, o) = "timeout" ->
            <<"Deployment Timed Out (5 min)",
              "Try /vercel-status to check if it completed.">>
      [] deployBranch(cmd, o) = "auth" ->
            <<"Authentication Failed", "Get fresh token: https://vercel.com/account/tokens",
              "Use /vercel-token <new_token>">>
      [] OTHER -> <<"Deployment Failed">> \o failureDetails(o)

\* deployToVercel: what it resolves with
deployResult(cmd, o) ==
    [success |-> ~o.failed,
     url |-> IF o.failed THEN NoUrl ELSE deploymentUrl(o.stdout),
     message |-> deployMessage(cmd, o),
     logs |-> IF o.failed THEN o.stderr ELSE o.stdout]

\* a line the logger has written
LogEntry(tag, args) == [tag |-> tag, args |-> args]

\* one call of a Vercel function has resolved
Called(fn, token, message, entries_) ==
    /\ handled' = handled + 1
    /\ event' = [kind |-> fn, from |-> "", text |-> token, branch |-> "",
                 message |-> message]
    /\ log' = log \cup entries_
    /\ UNCHANGED <<userState, users, repos, runVars, vercelTokens, nextRepoId,
                   githubReposCache, conversationHistory, outbox, ops, now,
                   appends>>

\* deployToVercel(projectPath, true, token)
DeployToVercel(token, o) ==
    LET cmd == vercelCmd(ProjectPath, <<" --prod", " --yes">>, token)
    IN  /\ handled < MaxCalls
        /\ Called("deployToVercel", token, deployMessage(cmd, o),
                  {LogEntry("Starting Vercel deployment",
                            vercelCmd(ProjectPath, <<" --prod", " --yes">>,
                                      IF token # NoVercelToken
                                      THEN <<"[REDACTED]">> ELSE token))})

\* getVercelStatus(projectPath, token)
GetVercelStatus(token, o) ==
    LET cmd == vercelCmd(ProjectPath, <<" ls">>, token)
    IN  /\ handled < MaxCalls
        /\ Called("getVercelStatus", token, statusMessage(cmd, o),
                  {LogEntry("Checking Vercel status", ProjectPath)})

\* getVercelLogs(projectPath, 50, token)
GetVercelLogs(token, o) ==
    LET cmd == vercelCmd(ProjectPath, <<" logs", " --limit=50">>, token)
    IN  /\ handled < MaxCalls
        /\ Called("getVercelLogs", token, logsMessage(cmd, o),
                  {LogEntry("Fetching Vercel logs", ProjectPath)})

\* testVercelToken(token)
TestVercelToken(token, o) ==
    /\ handled < MaxCalls
    /\ Called("testVercelToken", token, tokenTestMessage(token, o),
              IF validateVercelToken(token)
              THEN {LogEntry("Testing Vercel token validity", <<>>)} ELSE {})

InitVercel == InitHistory

NextVercel ==
    \/ \E token \in VercelTokens \cup {NoVercelToken}, o \in ExecOutcomes :
          DeployToVercel(token, o)
    \/ \E token \in VercelTokens \cup {NoVercelToken}, o \in ExecOutcomes :
          GetVercelStatus(token, o)
    \/ \E token \in VercelTokens \cup {NoVercelToken}, o \in ExecOutcomes :
          GetVercelLogs(token, o)
    \/ \E token \in VercelTokens \cup {ShortToken}, o \in ExecOutcomes :
          TestVercelToken(token, o)

SpecVercel == InitVercel /\ [][NextVercel]_vars

VercelCalls == {"deployToVercel", "getVercelStatus", "getVercelLogs", "testVercelToken"}

\* C13: the message a Vercel call returns to its caller never contains the
\* credential its command line embedded, on success and on every failure.
C13_MessageHidesCredential ==
    (event.kind \in VercelCalls /\ event.text # NoVercelToken)
        => ~includes(event.message, event.text)

(***************************************************************************)
(* Admission, credentials and the repository registry                      *)
(*                                                                         *)
(* Messages arrive in direct chats: remoteJid is the sender and            *)
(* message.key.participant is undefined.  A jid is written as its digits,  *)
(* so remoteJid.split('@')[0] and normalizePhone leave it as it is.  The    *)
(* confirmation runs are at rest: a text that the dispatch order hands to  *)
(* the commit or deploy confirmation is not delivered here.                *)
(***************************************************************************)
\* ALLOWED_NUMBERS of the message handler
ALLOWED_NUMBERS == {JidA}

\* config.allowedPhones, with ALLOWED_PHONES naming both numbers
allowedPhones == {JidA, JidB}

\* normalizePhone: every character that is not a digit is removed
normalizePhone(jid) == jid

\* handleMessage lets a text pass both allow-lists
textAdmitted(remoteJid) ==
    remoteJid \in ALLOWED_NUMBERS /\ normalizePhone(remoteJid) \in allowedPhones

\* every sender of an audio message is let in
audioAdmittedAnyone(remoteJid) == TRUE

\* handleAudioMessage lets an audio message pass config.allowedPhones
audioAdmitted(remoteJid) == normalizePhone(remoteJid) \in allowedPhones

\* the argument of /auth in the texts below
AuthToken == <<"s","e","c","r","e","t","-","t","o","k","e","n">>

RepoUrl2 == <<"u","r","l","2">>

S_token   == Token1
S_auth    == <<"/","a","u","t","h"," ">> \o AuthToken
S_repos   == <<"/","r","e","p","o","s">>
S_use     == <<"/","u","s","e"," ","u","r","l">>
S_clone   == <<"/","c","l","o","n","e"," ">> \o RepoUrl2
S_nlclone == <<"c","l","o","n","e"," ">> \o RepoUrl2
S_chat    == <<"h","o","w","d","y">>

\* the texts sent to the bot, and spoken to it
StoreTexts == {S_token, S_auth, S_repos, S_use, S_clone, S_nlclone, S_chat}

S_use2    == <<"/","u","s","e"," ","u","r","l","2">>
S_yes     == <<"y","e","s">>
S_later   == <<"l","a","t","e","r">>

\* the texts of an identity that selects among its clones and answers the
\* deploy prompt
SelectTexts == {S_use2, S_yes, S_later}

\* the credentials those texts carry
Secrets == {Token1, AuthToken}

\* what the GitHub API lists for a valid token
RemoteRepos ==
    << [name |-> RepoUrl1, clone_url |-> RepoUrl1, description |-> <<>>],
       [name |-> RepoUrl2, clone_url |-> RepoUrl2, description |-> <<>>] >>

\* the positions of the blanks of t, in order
RECURSIVE blanksFrom(_, _)
blanksFrom(t, i) ==
    IF i > Len(t) THEN <<>>
    ELSE IF t[i] = " " THEN <<i>> \o blanksFrom(t, i + 1)
    ELSE blanksFrom(t, i + 1)

\* textContent.split(' ')[1]: <<>> when there is no second word
secondWord(t) ==
    LET b == blanksFrom(t, 1)
    IN  IF b = <<>> THEN <<>>
        ELSE SubSeq(t, b[1] + 1, IF Len(b) >= 2 THEN b[2] - 1 ELSE Len(t))

\* textContent.split(' ').slice(1).join(' ').trim()
restOfText(t) ==
    LET b == blanksFrom(t, 1)
    IN  IF b = <<>> THEN <<>> ELSE trim(SubSeq(t, b[1] + 1, Len(t)))

\* the last position of the run of name characters that starts at j
RECURSIVE nameEnd(_, _)
nameEnd(t, j) ==
    IF j < Len(t) /\ t[j + 1] \in NameChars THEN nameEnd(t, j + 1) ELSE j

\* match[1].trim() of the first clone pattern that matches; the texts
\* above name the repository without quotes
cloneName(t) ==
    LET hits == {p \in (1..Len(t)) \X (1..Len(t)) :
                    CloneVerbAt(t, p[1], p[2]) /\ t[p[2]] \in NameChars}
        first == CHOOSE p \in hits :
                    \A q \in hits : p[1] < q[1] \/ (p[1] = q[1] /\ p[2] >= q[2])
    IN  IF hits = {} THEN <<>> ELSE trim(SubSeq(t, first[2], nameEnd(t, first[2])))

\* the position after the last "/" of url
RECURSIVE afterLastSlash(_, _)
afterLastSlash(url, i) ==
    IF i = 0 THEN 1
    ELSE IF url[i] = "/" THEN i + 1
    ELSE afterLastSlash(url, i - 1)

DotGit == <<".","g","i","t">>

\* s.replace('.git', ''): the first occurrence is removed
removeDotGit(s_) ==
    IF ~includes(s_, DotGit) THEN s_
    ELSE LET i == CHOOSE k \in 1..Len(s_) :
                     /\ OccursAt(s_, DotGit, k)
                     /\ \A m \in 1..(k - 1) : ~OccursAt(s_, DotGit, m)
         IN  SubSeq(s_, 1, i - 1) \o SubSeq(s_, i + Len(DotGit), Len(s_))

\* repoUrl.split('/').pop().replace('.git', '')
repoNameFromUrl(url) == removeDotGit(SubSeq(url, afterLastSlash(url, Len(url)), Len(url)))

\* messages delivered to the bot in one behaviour
MaxHandled == 3
\* the last clock value of a behaviour
MaxNow == 4

\* config.db.encryptionSecret of an earlier process lifetime
EarlierSecret == "an_earlier_secret"

\* db.json as found at start-up: empty, or JidA's saved token and active
\* clone, or the same with the token encrypted under an earlier secret
StoreDbAtStart ==
    { [users |-> [p \in Jids |-> NoUser], repos |-> <<>>],
      [users |-> [p \in Jids |->
                     IF p = JidA
                     THEN [exists |-> TRUE,
                           tokenEnc |-> encrypt(Token1, EarlierSecret),
                           activeRepoId |-> Repo1.id]
                     ELSE NoUser],
       repos |-> <<Repo1>>],
      [users |-> [p \in Jids |->
                     IF p = JidA
                     THEN [exists |-> TRUE,
                           tokenEnc |-> encrypt(Token1, EncryptionSecret),
                           activeRepoId |-> Repo1.id]
                     ELSE NoUser],
       repos |-> <<Repo1>>] }

\* the clock at process start is later than the clock of any earlier clone
InitRepos ==
    /\ userState = [p \in Jids |-> NoUserState]
    /\ \E db \in StoreDbAtStart : users = db.users /\ repos = db.repos
    /\ nextRepoId = Len(repos) + 1
    /\ RunsAtRest
    /\ githubReposCache = [p \in Jids |-> NoCache]
    /\ conversationHistory = [p \in Jids |-> <<>>]
    /\ outbox = [p \in Jids |-> {}]
    /\ log = {}
    /\ ops = {}
    /\ now = Repo1.localPath + 1
    /\ event = NoEvent
    /\ handled = 0
    /\ appends = [p \in Jids |-> 0]
    /\ vercelTokens = [p \in Jids |-> NoVercelToken]

\* listRepos
listRepos(phone) == SelectSeq(repos, LAMBDA r : r.phone = phone)

\* every user's pointer is moved
setActiveRepoOfEveryUser(us, phone, repoId) ==
    [p \in DOMAIN us |->
        IF us[p].exists THEN [us[p] EXCEPT !.activeRepoId = repoId] ELSE us[p]]

\* setActiveRepo: the users table after the call
setActiveRepo(us, phone, repoId) ==
    [us EXCEPT ![phone] = IF @.exists THEN [@ EXCEPT !.activeRepoId = repoId] ELSE @]

\* the record is pushed and the active pointer is left alone
addRepoKeepsActive(phone, repoUrl, localPath) ==
    [repos |-> Append(repos, [id |-> nextRepoId, phone |-> phone,
                              repoUrl |-> repoUrl, localPath |-> localPath]),
     users |-> users,
     nextRepoId |-> nextRepoId + 1]

\* the pointer takes the counter after its increment, not the new record's id
addRepoPreIncrement(phone, repoUrl, localPath) ==
    [repos |-> Append(repos, [id |-> nextRepoId, phone |-> phone,
                              repoUrl |-> repoUrl, localPath |-> localPath]),
     users |-> setActiveRepo(users, phone, nextRepoId + 1),
     nextRepoId |-> nextRepoId + 1]

\* addRepo: repos, users and nextRepoId after the call
addRepo(phone, repoUrl, localPath) ==
    [repos |-> Append(repos, [id |-> nextRepoId, phone |-> phone,
                              repoUrl |-> repoUrl, localPath |-> localPath]),
     users |-> setActiveRepo(users, phone, nextRepoId),
     nextRepoId |-> nextRepoId + 1]

\* Array.prototype.find: the first element that satisfies Test, or none
findFirst(seq, Test(_), none) ==
    IF \E i \in 1..Len(seq) : Test(seq[i])
    THEN seq[CHOOSE i \in 1..Len(seq) :
                 Test(seq[i]) /\ \A k \in 1..(i - 1) : ~Test(seq[k])]
    ELSE none

NoRemoteRepo == [name |-> <<>>, clone_url |-> <<>>, description |-> <<>>]

\* the exact-name pass is skipped
findRepoByNamePartialFirst(cached, searchName) ==
    findFirst(cached, LAMBDA r : includes(toLowerCase(r.name), toLowerCase(trim(searchName))),
              NoRemoteRepo)

\* findRepoByName: exact name first, then a name that contains the search,
\* then a description that contains it; a null description is <<>>
findRepoByName(cached, searchName) ==
    LET search == toLowerCase(trim(searchName))
        exact == findFirst(cached, LAMBDA r : toLowerCase(r.name) = search,
                           NoRemoteRepo)
        partial == findFirst(cached, LAMBDA r : includes(toLowerCase(r.name), search),
                             NoRemoteRepo)
    IN  IF exact # NoRemoteRepo THEN exact
        ELSE IF partial # NoRemoteRepo THEN partial
        ELSE findFirst(cached,
                       LAMBDA r : r.description # <<>>
                                  /\ includes(toLowerCase(r.description), search),
                       NoRemoteRepo)

\* the repository /use selects among the identity's clones
foundForUse(phone, repoName) ==
    findFirst(listRepos(phone),
              LAMBDA r : \/ toLowerCase(repoNameFromUrl(r.repoUrl)) = toLowerCase(repoName)
                         \/ includes(toLowerCase(repoNameFromUrl(r.repoUrl)),
                                     toLowerCase(repoName)),
              NoActiveRepo)

\* listRepos(remoteJid).find(r => r.repoUrl === url)
existingRepo(phone, url) ==
    findFirst(listRepos(phone), LAMBDA r : r.repoUrl = url, NoActiveRepo)

\* addToHistory called for each entry in turn
RECURSIVE record(_, _, _)
record(hist, jid, es) ==
    IF es = <<>> THEN hist
    ELSE record(addToHistory(hist, jid, Head(es).role, Head(es).content), jid, Tail(es))

UserEntry(content) == [role |-> "user", content |-> content]
AssistantEntry(content) == [role |-> "assistant", content |-> content]

\* the replies sent by one step, each followed by addToHistory
RepliesRecorded(replies) == [k \in 1..Len(replies) |-> AssistantEntry(replies[k])]

Range(seq) == {seq[k] : k \in 1..Len(seq)}

\* what every step of the registry machine writes: the descriptor of the step,
\* the log lines, the replies sent to jid and the entries added to its history
Effects(ev, logs, replies, es) ==
    /\ event' = ev
    /\ log' = log \cup logs
    /\ outbox' = [outbox EXCEPT ![ev.from] = @ \cup Range(replies)]
    /\ conversationHistory' = record(conversationHistory, ev.from, es)
    /\ UNCHANGED <<runVars, appends, vercelTokens>>

\* the descriptor of a message: who sent it, what it said, which branch took it
Message(kind, from, text, branch) ==
    [kind |-> kind, from |-> from, text |-> text, branch |-> branch,
     hasToken |-> getToken(from) # NoToken]

\* route, tabulated for the texts of this machine
StoreRoutes ==
    [t \in StoreTexts \cup SelectTexts |-> [hasToken \in BOOLEAN |->
        [waitingForCommit \in BOOLEAN |-> [waitingForDeployConfirm \in BOOLEAN |->
            route(t, hasToken, waitingForCommit, waitingForDeployConfirm)]]]]

\* the branch handleMessage takes for a text of remoteJid
branchOf(remoteJid, t) ==
    StoreRoutes[t][getToken(remoteJid) # NoToken][userState[remoteJid].waitingForCommit]
               [userState[remoteJid].waitingForDeployConfirm]

\* the log lines every admitted text leaves before it is dispatched
ReceivedLog(remoteJid, t) ==
    { LogEntry("Message received", <<remoteJid>> \o t),
      LogEntry("Phone allowed, processing message", <<remoteJid>>) }

\* a text that handleMessage drops at one of the two allow-lists
TextIgnored(remoteJid, t) ==
    /\ ~textAdmitted(remoteJid)
    /\ handled < MaxHandled
    /\ Effects(Message("text", remoteJid, t, "ignored"),
               IF remoteJid \notin ALLOWED_NUMBERS
               THEN {LogEntry("Message received from unauthorized number", <<remoteJid>>)}
               ELSE {LogEntry("Message received", <<remoteJid>> \o t),
                     LogEntry("Phone not allowed, ignoring message", <<remoteJid>>)},
               <<>>, <<>>)
    /\ handled' = handled + 1
    /\ UNCHANGED <<userState, users, repos, nextRepoId, githubReposCache, ops, now>>

\* a text in which a GitHub token is detected
TextToken(remoteJid, t) ==
    /\ textAdmitted(remoteJid)
    /\ handled < MaxHandled
    /\ branchOf(remoteJid, t) = "token"
    /\ users' = saveToken(remoteJid, detectGitHubToken(t))
    /\ Effects(Message("text", remoteJid, t, "token"),
               ReceivedLog(remoteJid, t) \cup
               { LogEntry("GitHub token detected", SubSeq(detectGitHubToken(t), 1, 10)),
                 LogEntry("Token saved for user", <<remoteJid>>) },
               << <<"GitHub token detected and saved automatically!">> >>,
               <<UserEntry(t),
                 AssistantEntry(<<"GitHub token detected and saved automatically!">>)>>)
    /\ handled' = handled + 1
    /\ UNCHANGED <<userState, repos, nextRepoId, githubReposCache, ops, now>>

\* /auth <token>
TextAuth(remoteJid, t) ==
    /\ textAdmitted(remoteJid)
    /\ handled < MaxHandled
    /\ branchOf(remoteJid, t) = "auth"
    /\ users' = IF trim(secondWord(t)) = <<>> THEN users
                ELSE saveToken(remoteJid, trim(secondWord(t)))
    /\ LET response == IF trim(secondWord(t)) = <<>>
                       THEN <<"Usage: /auth <your_github_token>">>
                       ELSE <<"GitHub token saved! You can now push commits.">>
       IN  Effects(Message("text", remoteJid, t, "auth"),
                   ReceivedLog(remoteJid, t),
                   <<response>>,
                   <<UserEntry(t), AssistantEntry(response)>>)
    /\ handled' = handled + 1
    /\ UNCHANGED <<userState, repos, nextRepoId, githubReposCache, ops, now>>

SetupPrompt == <<"First, you need to configure your GitHub token.">>

\* /clone, /repos or /use from an identity without a retrievable token
TextGate(remoteJid, t) ==
    /\ textAdmitted(remoteJid)
    /\ handled < MaxHandled
    /\ branchOf(remoteJid, t) = "gate"
    /\ Effects(Message("text", remoteJid, t, "gate"),
               ReceivedLog(remoteJid, t),
               <<SetupPrompt>>,
               <<UserEntry(t), AssistantEntry(SetupPrompt)>>)
    /\ handled' = handled + 1
    /\ UNCHANGED <<userState, users, repos, nextRepoId, githubReposCache, ops, now>>

\* token.substring(0, 10)
tokenStart(token) == SubSeq(token, 1, Min(10, Len(token)))

\* the names of the repositories of a list, as a reply shows them
RECURSIVE namesOf(_)
namesOf(list) == IF list = <<>> THEN <<>> ELSE Head(list).name \o <<"\n">> \o namesOf(Tail(list))

\* /repos with a retrievable token: fetchUserRepos resolves or throws
TextRepos(remoteJid, t, fetched) ==
    /\ textAdmitted(remoteJid)
    /\ handled < MaxHandled
    /\ branchOf(remoteJid, t) = "repos"
    /\ githubReposCache' =
          IF fetched THEN [githubReposCache EXCEPT ![remoteJid] = RemoteRepos]
          ELSE githubReposCache
    /\ LET loading == <<"Fetching your GitHub repositories...">>
           response == IF fetched
                       THEN <<"Your GitHub Repositories:">> \o namesOf(RemoteRepos)
                       ELSE <<"Error fetching repositories: ",
                              "Invalid GitHub token. Please check your token permissions.">>
       IN  Effects(Message("text", remoteJid, t, "repos"),
                   ReceivedLog(remoteJid, t) \cup
                   { LogEntry("Fetching repos for user", <<remoteJid>>),
                     LogEntry("About to fetch GitHub repos",
                              tokenStart(getToken(remoteJid))) },
                   <<loading, response>>,
                   <<UserEntry(t), AssistantEntry(loading), AssistantEntry(response)>>)
    /\ handled' = handled + 1
    /\ UNCHANGED <<userState, users, repos, nextRepoId, ops, now>>

\* /use <name> with a retrievable token
TextUse(remoteJid, t) ==
    /\ textAdmitted(remoteJid)
    /\ handled < MaxHandled
    /\ branchOf(remoteJid, t) = "use"
    /\ LET repoName == restOfText(t)
           foundRepo == foundForUse(remoteJid, repoName)
           response ==
               IF repoName = <<>> THEN <<"Available Local Repositories:">>
               ELSE IF foundRepo # NoActiveRepo
               THEN <<"Active repo set to: ">> \o repoNameFromUrl(foundRepo.repoUrl)
               ELSE <<"Repository \"">> \o repoName \o <<"\" not found.">>
       IN  /\ users' = IF repoName # <<>> /\ foundRepo # NoActiveRepo
                       THEN setActiveRepo(users, remoteJid, foundRepo.id)
                       ELSE users
           /\ Effects(Message("text", remoteJid, t, "use"),
                      ReceivedLog(remoteJid, t)
                          \cup {LogEntry("Use command called", repoName)},
                      <<response>>,
                      <<UserEntry(t), AssistantEntry(response)>>)
    /\ handled' = handled + 1
    /\ UNCHANGED <<userState, repos, nextRepoId, githubReposCache, ops, now>>

\* simpleGit().clone(repoUrl, `./repos/${Date.now()}`) has been called
CloneOp(remoteJid, repoUrl, name, via) ==
    [kind |-> "clone", jid |-> remoteJid, repoUrl |-> repoUrl, name |-> name,
     localPath |-> now, serial |-> handled + 1, via |-> via]

\* a clone waits for the identity's outstanding operation: none is started
\* while one is pending
TextCloneQueued(remoteJid, t) ==
    /\ textAdmitted(remoteJid)
    /\ handled < MaxHandled
    /\ now < MaxNow
    /\ branchOf(remoteJid, t) = "clone"
    /\ LET repoUrl == secondWord(t)
           busy == \E op \in ops : op.jid = remoteJid
       IN  /\ ops' = IF busy THEN ops
                     ELSE ops \cup {CloneOp(remoteJid, repoUrl, repoNameFromUrl(repoUrl), "/clone")}
           /\ Effects(Message("text", remoteJid, t, "clone"),
                      ReceivedLog(remoteJid, t), <<>>, <<UserEntry(t)>>)
    /\ handled' = handled + 1
    /\ UNCHANGED <<userState, users, repos, nextRepoId, githubReposCache, now>>

\* /clone <url> with a retrievable token
TextClone(remoteJid, t) ==
    /\ textAdmitted(remoteJid)
    /\ handled < MaxHandled
    /\ now < MaxNow
    /\ branchOf(remoteJid, t) = "clone"
    /\ LET repoUrl == secondWord(t)
           already == existingRepo(remoteJid, repoUrl) # NoActiveRepo
           response == <<"Repository already cloned!\n\nUse \"/use ">>
                           \o repoNameFromUrl(repoUrl) \o <<"\" to switch to it">>
       IN  /\ ops' = IF already THEN ops
                     ELSE ops \cup {CloneOp(remoteJid, repoUrl, repoNameFromUrl(repoUrl), "/clone")}
           /\ Effects(Message("text", remoteJid, t, IF already THEN "clone-exists" ELSE "clone"),
                      ReceivedLog(remoteJid, t) \cup
                      (IF already THEN {} ELSE {LogEntry("Cloning repo", repoUrl)}),
                      IF already THEN <<response>> ELSE <<>>,
                      IF already THEN <<UserEntry(t), AssistantEntry(response)>>
                      ELSE <<UserEntry(t)>>)
    /\ handled' = handled + 1
    /\ UNCHANGED <<userState, users, repos, nextRepoId, githubReposCache, now>>

\* "clone <name>": no command before it in the dispatch order takes the text
TextNlClone(remoteJid, t) ==
    /\ textAdmitted(remoteJid)
    /\ handled < MaxHandled
    /\ now < MaxNow
    /\ branchOf(remoteJid, t) = "nlclone"
    /\ LET repoName == cloneName(t)
           cachedRepos == githubReposCache[remoteJid]
           foundRepo == findRepoByName(cachedRepos, repoName)
           outcome ==
               IF cachedRepos = NoCache THEN "nlclone-no-cache"
               ELSE IF foundRepo = NoRemoteRepo THEN "nlclone-not-found"
               ELSE IF existingRepo(remoteJid, foundRepo.clone_url) # NoActiveRepo
               THEN "nlclone-exists"
               ELSE "nlclone"
           response ==
               CASE outcome = "nlclone-no-cache" ->
                        <<"No GitHub repositories cached. Use /repos first to load your repositories.">>
                 [] outcome = "nlclone-not-found" ->
                        <<"Repository \"">> \o repoName \o <<"\" not found in your GitHub repos.">>
                 [] outcome = "nlclone-exists" ->
                        <<"Repository \"">> \o foundRepo.name \o <<"\" already cloned!">>
                 [] OTHER -> <<"Cloning ">> \o foundRepo.name \o <<"...">>
       IN  /\ ops' = IF outcome = "nlclone"
                     THEN ops \cup {CloneOp(remoteJid, foundRepo.clone_url, foundRepo.name, "clone")}
                     ELSE ops
           /\ Effects(Message("text", remoteJid, t, outcome),
                      ReceivedLog(remoteJid, t),
                      <<response>>,
                      <<UserEntry(t), AssistantEntry(response)>>)
    /\ handled' = handled + 1
    /\ UNCHANGED <<userState, users, repos, nextRepoId, githubReposCache, now>>

\* a clone takes longer than one tick of the clock
clockAfter(op) == IF now > op.localPath THEN now ELSE now + 1

\* the operation started by the n-th message
OpOf(n) == CHOOSE op \in ops : op.serial = n

Pending(n, kind) == \E op \in ops : op.serial = n /\ op.kind = kind

\* the promise of simpleGit().clone settles: .then or .catch
CloneDone(n, cloned) ==
    /\ Pending(n, "clone")
    /\ now' = clockAfter(OpOf(n))
    /\ LET op == OpOf(n)
           db == addRepo(op.jid, op.repoUrl, op.localPath)
           response == <<"Failed to clone: ", "Error: git clone">>
       IN  IF cloned
           THEN /\ repos' = db.repos
                /\ users' = db.users
                /\ nextRepoId' = db.nextRepoId
                /\ ops' = (ops \ {op}) \cup {[op EXCEPT !.kind = "describe"]}
                /\ Effects(Message("cloneDone", op.jid, op.repoUrl, "cloned"),
                           {}, <<>>, <<>>)
           ELSE /\ UNCHANGED <<repos, users, nextRepoId>>
                /\ ops' = ops \ {op}
                /\ Effects(Message("cloneDone", op.jid, op.repoUrl, "failed"),
                           {}, <<response>>, <<AssistantEntry(response)>>)
    /\ UNCHANGED <<userState, githubReposCache, handled>>

\* the callback of exec(`cd ${localPath} && janito describe`)
DescribeDone(n, described) ==
    /\ Pending(n, "describe")
    /\ ops' = ops \ {OpOf(n)}
    /\ LET op == OpOf(n)
           response == IF described THEN op.name \o <<" is ready!">>
                       ELSE <<"Repo cloned but couldn't analyze it: ", "stderr">>
       IN  Effects(Message("describeDone", op.jid, op.repoUrl,
                           IF described THEN "described" ELSE "describe-failed"),
                   IF op.via = "/clone"
                   THEN {LogEntry("Janito describe after clone", <<"stdout", "stderr">>)}
                   ELSE {},
                   <<response>>, <<AssistantEntry(response)>>)
    /\ UNCHANGED <<userState, users, repos, nextRepoId, githubReposCache, now, handled>>

\* Date.now() moves on
Tick ==
    /\ now < MaxNow
    /\ now' = now + 1
    /\ event' = [kind |-> "tick", from |-> "", text |-> <<>>, branch |-> "",
                 hasToken |-> FALSE]
    /\ UNCHANGED <<userState, users, repos, runVars, vercelTokens, nextRepoId, githubReposCache,
                   conversationHistory, outbox, log, ops, handled, appends>>

\* what is said in a voice message that is not a command
A_chat == <<"h","o","w","d","y">>

\* the commands analyzeAudioIntent extracts from what was said
SpokenCommands == {S_token, S_repos, S_use}

AudioPrefix == "(from audio) "

\* the log lines of an audio message that passed the allow-list
AudioLog(remoteJid) ==
    { LogEntry("Audio phone check", <<remoteJid>>),
      LogEntry("Phone allowed for audio, processing message", <<remoteJid>>),
      LogEntry("Processing audio message", <<remoteJid>>) }

Processing == <<"Processing your audio message...">>

GotIt(transcription) == <<"Got it: \"">> \o transcription \o <<"\"\n\nLet me see what you need...">>

\* an audio message that handleAudioMessage drops at the allow-list
AudioIgnored(remoteJid) ==
    /\ ~audioAdmitted(remoteJid)
    /\ handled < MaxHandled
    /\ Effects(Message("audio", remoteJid, <<>>, "ignored"),
               { LogEntry("Audio phone check", <<remoteJid>>),
                 LogEntry("Phone not allowed for audio, ignoring message", <<remoteJid>>) },
               <<>>, <<>>)
    /\ handled' = handled + 1
    /\ UNCHANGED <<userState, users, repos, nextRepoId, githubReposCache, ops, now>>

\* the download, the conversion or the transcription throws
AudioFailed(remoteJid) ==
    /\ audioAdmitted(remoteJid)
    /\ handled < MaxHandled
    /\ Effects(Message("audio", remoteJid, <<>>, "audio-failed"),
               AudioLog(remoteJid) \cup {LogEntry("Error handling audio message", <<"error">>)},
               <<Processing,
                 <<"Sorry, I had trouble processing your audio message. Please try again.">>>>,
               <<>>)
    /\ handled' = handled + 1
    /\ UNCHANGED <<userState, users, repos, nextRepoId, githubReposCache, ops, now>>

L_repos        == <<"r","e","p","o","s">>
L_repositorios == <<"r","e","p","o","s","i","t","o","r","i","o","s">>

\* the branch processTextMessage takes
processTextBranch(t) ==
    CASE detectGitHubToken(t) # NoToken -> "audio-token"
      [] startsWith(t, C_vibe)           -> "audio-vibe"
      [] startsWith(t, C_repos) \/ includes(toLowerCase(t), L_repositorios)
           \/ includes(toLowerCase(t), L_repos) -> "audio-repos"
      [] OTHER                           -> "audio-other"

\* processTextBranch, tabulated for the spoken commands
SpokenBranches == [cmd \in SpokenCommands |-> processTextBranch(cmd)]

\* a spoken command other than a clone or an edit: processTextMessage(cmd)
AudioCommand(remoteJid, cmd, fetched) ==
    /\ audioAdmitted(remoteJid)
    /\ handled < MaxHandled
    /\ SpokenBranches[cmd] \in {"audio-token", "audio-repos", "audio-other"}
    /\ LET branch == SpokenBranches[cmd]
           token == getToken(remoteJid)
           saved == <<AudioPrefix, "GitHub token detected and saved! You can now use repo commands.">>
           setup == <<AudioPrefix, "You'll need to set up your GitHub token first. Try /auth <token>">>
           loading == <<AudioPrefix, "Getting your repositories...">>
           listed == <<AudioPrefix, "Here's what you've got:\n\n">> \o namesOf(RemoteRepos)
           failed == <<AudioPrefix, "Couldn't fetch your repos right now. Check your token maybe?">>
           other == <<AudioPrefix, "Got it: \"">> \o cmd \o <<"\"", "\n\nNeed help? Try:">>
           replies ==
               CASE branch = "audio-token" -> <<saved>>
                 [] branch = "audio-repos" /\ token = NoToken -> <<setup>>
                 [] branch = "audio-repos" /\ fetched -> <<loading, listed>>
                 [] branch = "audio-repos" -> <<loading, failed>>
                 [] OTHER -> <<other>>
       IN  /\ users' = IF branch = "audio-token"
                       THEN saveToken(remoteJid, detectGitHubToken(cmd))
                       ELSE users
           /\ githubReposCache' =
                 IF branch = "audio-repos" /\ token # NoToken /\ fetched
                 THEN [githubReposCache EXCEPT ![remoteJid] = RemoteRepos]
                 ELSE githubReposCache
           /\ Effects(Message("audio", remoteJid, cmd, branch),
                      AudioLog(remoteJid) \cup
                      {LogEntry("Audio transcribed", cmd)} \cup
                      (IF branch = "audio-token"
                       THEN { LogEntry("GitHub token detected", tokenStart(detectGitHubToken(cmd))),
                              LogEntry("Token saved for user", <<remoteJid>>) }
                       ELSE {}),
                      <<Processing, GotIt(cmd)>> \o replies,
                      <<UserEntry(cmd)>> \o RepliesRecorded(replies))
    /\ handled' = handled + 1
    /\ UNCHANGED <<userState, repos, nextRepoId, ops, now>>

\* a spoken edit request: processTextMessage(`/vibe ${intent.vibePrompt}`)
AudioVibe(remoteJid) ==
    /\ audioAdmitted(remoteJid)
    /\ handled < MaxHandled
    /\ LET activeRepo == getActiveRepo(remoteJid)
           none == <<AudioPrefix, "No active repository. Use /repos to list or /clone to add repositories.">>
           starting == <<AudioPrefix, "Starting AI code editing...">>
       IN  /\ ops' = IF activeRepo = NoActiveRepo THEN ops
                     ELSE ops \cup
                          {[kind |-> "edit", jid |-> remoteJid, repoUrl |-> activeRepo.repoUrl,
                            name |-> promptForJanito(T_vibe),
                            localPath |-> activeRepo.localPath,
                            serial |-> handled + 1, via |-> "audio"]}
           /\ Effects(Message("audio", remoteJid, T_vibe,
                              IF activeRepo = NoActiveRepo THEN "audio-vibe-no-repo"
                              ELSE "audio-vibe"),
                      AudioLog(remoteJid) \cup {LogEntry("Audio transcribed", T_vibe)} \cup
                      (IF activeRepo = NoActiveRepo THEN {}
                       ELSE {LogEntry("Running janito for prompt", promptForJanito(T_vibe))}),
                      <<Processing, GotIt(T_vibe)>> \o
                      (IF activeRepo = NoActiveRepo THEN <<none>> ELSE <<starting>>),
                      <<UserEntry(T_vibe)>> \o
                      (IF activeRepo = NoActiveRepo THEN <<AssistantEntry(none)>> ELSE <<>>))
    /\ handled' = handled + 1
    /\ UNCHANGED <<userState, users, repos, nextRepoId, githubReposCache, now>>

EditResults == {"changes", "no-changes", "failed"}

\* runJanitoWithProgress resolves for a spoken edit request
EditDone(n, result) ==
    /\ Pending(n, "edit")
    /\ ops' = ops \ {OpOf(n)}
    /\ userState' =
          IF result = "changes"
          THEN [userState EXCEPT ![OpOf(n).jid] =
                   [repoPath |-> OpOf(n).localPath, waitingForCommit |-> TRUE,
                    waitingForDeployConfirm |-> FALSE, lastPrompt |-> OpOf(n).name,
                    entry |-> 0]]
          ELSE userState
    /\ LET op == OpOf(n)
           response ==
               CASE result = "changes" -> <<AudioPrefix, "Done! Want me to commit this masterpiece?", " (yes/no)">>
                 [] result = "no-changes" -> <<AudioPrefix, "Your code is already on point! Nothing to modify here.">>
                 [] OTHER -> <<AudioPrefix, "Encountered an issue:", "\n\n", "output">>
       IN  Effects(Message("editDone", op.jid, op.name, result),
                   {}, <<response>>, <<AssistantEntry(response)>>)
    /\ UNCHANGED <<users, repos, nextRepoId, githubReposCache, now, handled>>

SorryAudio == <<"Sorry, I had trouble processing your audio message. Please try again.">>

\* what a voice message that is neither a command nor an edit request leaves
\* behind: chatWithRepoFunctions answers, or throws into the catch of
\* handleAudioMessage
AudioChatEffects(remoteJid, answered) ==
    LET response == <<"chatWithRepoFunctions response">>
    IN  Effects(Message("audio", remoteJid, A_chat,
                        IF answered THEN "audio-chat" ELSE "audio-chat-failed"),
                AudioLog(remoteJid) \cup {LogEntry("Audio transcribed", A_chat)} \cup
                (IF answered THEN {}
                 ELSE {LogEntry("Error handling audio message", <<"error">>)}),
                <<Processing, GotIt(A_chat), IF answered THEN response ELSE SorryAudio>>,
                IF answered THEN <<UserEntry(A_chat), AssistantEntry(response)>>
                ELSE <<UserEntry(A_chat)>>)

\* a failed chat clears the confirmation the identity was asked for
AudioChatForgets(remoteJid, answered) ==
    /\ audioAdmitted(remoteJid)
    /\ handled < MaxHandled
    /\ AudioChatEffects(remoteJid, answered)
    /\ handled' = handled + 1
    /\ userState' = IF answered THEN userState
                    ELSE [userState EXCEPT ![remoteJid] = NoUserState]
    /\ UNCHANGED <<users, repos, nextRepoId, githubReposCache, ops, now>>

\* a voice message that is neither a command nor an edit request
AudioChat(remoteJid, answered) ==
    /\ audioAdmitted(remoteJid)
    /\ handled < MaxHandled
    /\ AudioChatEffects(remoteJid, answered)
    /\ handled' = handled + 1
    /\ UNCHANGED <<userState, users, repos, nextRepoId, githubReposCache, ops, now>>

\* a text no command takes: the AI fallback of handleMessage
TextFallback(remoteJid, t, answered) ==
    /\ textAdmitted(remoteJid)
    /\ handled < MaxHandled
    /\ branchOf(remoteJid, t) = "fallback"
    /\ LET notCached == /\ isRepoQuestion(t)
                        /\ githubReposCache[remoteJid] = NoCache
                        /\ getToken(remoteJid) # NoToken
           response ==
               IF ~aiEnabled THEN <<"Echo: ">> \o t
               ELSE IF notCached
               THEN <<"I don't have your GitHub repositories cached yet.">>
               ELSE IF answered THEN <<"chatWithRepoFunctions response">>
               ELSE <<"Error processing your message.">>
           failed == aiEnabled /\ ~notCached /\ ~answered
       IN  Effects(Message("text", remoteJid, t,
                           IF failed THEN "fallback-failed" ELSE "fallback"),
                   ReceivedLog(remoteJid, t) \cup {LogEntry("Entering AI fallback", t)} \cup
                   (IF failed THEN {LogEntry("Error in fallback response", <<"error">>)}
                    ELSE {}),
                   <<response>>,
                   <<UserEntry(t), AssistantEntry(response)>>)
    /\ handled' = handled + 1
    /\ UNCHANGED <<userState, users, repos, nextRepoId, githubReposCache, ops, now>>

NextRepos ==
    \/ \E jid \in Jids, t \in StoreTexts :
          \/ TextIgnored(jid, t)
          \/ TextToken(jid, t)
          \/ TextAuth(jid, t)
          \/ TextGate(jid, t)
          \/ TextUse(jid, t)
          \/ TextClone(jid, t)
          \/ TextNlClone(jid, t)
          \/ \E fetched \in BOOLEAN : TextRepos(jid, t, fetched)
          \/ \E answered \in BOOLEAN : TextFallback(jid, t, answered)
    \/ \E jid \in Jids :
          \/ AudioIgnored(jid)
          \/ AudioFailed(jid)
          \/ AudioVibe(jid)
          \/ \E answered \in BOOLEAN : AudioChat(jid, answered)
          \/ \E cmd \in SpokenCommands, fetched \in BOOLEAN : AudioCommand(jid, cmd, fetched)
    \/ \E n \in 1..MaxHandled :
          \/ \E cloned \in BOOLEAN : CloneDone(n, cloned)
          \/ \E described \in BOOLEAN : DescribeDone(n, described)
          \/ \E result \in EditResults : EditDone(n, result)
    \/ Tick

SpecRepos == InitRepos /\ [][NextRepos]_vars

\* every rendered string the program has written: log lines, history entries
\* and replies
Written ==
    {l.args : l \in log}
    \cup UNION {{conversationHistory[p][k].content : k \in 1..Len(conversationHistory[p])} : p \in Jids}
    \cup UNION {outbox[p] : p \in Jids}

\* C12: no log entry, no history entry and no reply contains the plaintext
\* of a credential an identity has submitted.
C12_NoPlaintextCredential ==
    \A secret \in Secrets : \A p \in Jids :
        getToken(p) = secret => \A w \in Written : ~includes(w, secret)

\* C18: no two RepoRecords have the same local path.
C18_LocalPathsDistinct ==
    \A i, j \in 1..Len(repos) : i # j => repos[i].localPath # repos[j].localPath

\* a text that is a clone, list-remote-repos or select-active-repo command
isRepoVerb(t) == isRepoCommand(t) \/ matchesClonePattern(t)

RepoVerbTexts == {t \in StoreTexts : isRepoVerb(t)}

\* C15: a clone, /repos or /use message from an identity without a
\* retrievable token is answered with the setup prompt and nothing else.
C15_RepoVerbsGated ==
    (event.kind = "text" /\ event.branch # "ignored" /\ event.text \in RepoVerbTexts
        /\ ~event.hasToken)
    => event.branch = "gate"

\* C14: a message, text or audio, from a sender whose normalized number is
\* not in config.allowedPhones sends no reply and changes no history, no
\* credential, no repo record, no active pointer, no phase and no
\* repository cache; such a sender is never sent anything.
C14_NotAllowedSenderIgnored ==
    /\ [](\A p \in Jids : normalizePhone(p) \notin allowedPhones => outbox[p] = {})
    /\ [][(event'.kind \in {"text", "audio"}
              /\ normalizePhone(event'.from) \notin allowedPhones)
          => /\ outbox' = outbox
             /\ conversationHistory' = conversationHistory
             /\ users' = users
             /\ repos' = repos
             /\ nextRepoId' = nextRepoId
             /\ userState' = userState
             /\ githubReposCache' = githubReposCache
             /\ ops' = ops]_vars

\* the stranger's text and voice message were both dropped while an allowed
\* number was being answered
C14_StrangerDropped ==
    /\ event.kind = "audio"
    /\ event.from = JidX
    /\ event.branch = "ignored"
    /\ LogEntry("Message received from unauthorized number", <<JidX>>) \in log
    /\ outbox[JidB] # {}

\* what an identity owns: its user record (credential and active pointer),
\* its repo records, its phase and pending context, its history and its cache
OwnedBy(p) ==
    <<users[p], listRepos(p), userState[p], conversationHistory[p],
      githubReposCache[p]>>

\* C16: a step that handles a message or a completion of one identity
\* leaves everything every other identity owns unchanged.
C16_OtherIdentitiesUntouched ==
    [][\A b \in Jids : b # event'.from => OwnedBy(b)' = OwnedBy(b)]_vars

\* a clone of JidA completed while JidB holds a credential and a history
C16_TwoIdentitiesActive ==
    /\ event.kind = "cloneDone"
    /\ event.branch = "cloned"
    /\ event.from = JidA
    /\ users[JidB].exists
    /\ conversationHistory[JidB] # <<>>
    /\ conversationHistory[JidA] # <<>>

\* C17: a clone that succeeds adds exactly one record, owned by the
\* identity, and makes it the identity's active repository; a clone that
\* fails, and the describe step whatever its outcome, add no record and
\* leave the active pointers alone.
C17_CloneCompletion ==
    [][/\ (event'.kind = "cloneDone" /\ event'.branch = "cloned")
          => /\ Len(repos') = Len(repos) + 1
             /\ SubSeq(repos', 1, Len(repos)) = repos
             /\ repos'[Len(repos')].phone = event'.from
             /\ \A i \in 1..Len(repos) : repos[i].id # repos'[Len(repos')].id
             /\ users'[event'.from].exists
             /\ users'[event'.from].activeRepoId = repos'[Len(repos')].id
       /\ (event'.kind = "cloneDone" /\ event'.branch = "failed")
          => repos' = repos /\ users' = users
       /\ event'.kind = "describeDone"
          => repos' = repos /\ users' = users]_vars

\* the describe step of a fresh clone failed and the clone is the active
\* repository
C17_DescribeFailedCloneActive ==
    /\ event.kind = "describeDone"
    /\ event.branch = "describe-failed"
    /\ getActiveRepo(event.from).repoUrl = event.text
    /\ getActiveRepo(event.from).id = Len(repos)
    /\ getActiveRepo(event.from).id # Repo1.id

(***************************************************************************)
(* The fuzzy resolver: findRepoByName over a cache of remote repositories  *)
(***************************************************************************)
N_alpha    == <<"a","l","p","h","a">>
N_alphabet == <<"a","l","p","h","a","b","e","t">>
N_beta     == <<"b","e","t","a">>
N_Docs     == <<"D","o","c","s">>
D_notes    == <<"B","e","t","a"," ","n","o","t","e","s">>

\* what fetchUserRepos may list
RemoteEntries ==
    { [name |-> N_alpha, clone_url |-> N_alpha, description |-> <<>>],
      [name |-> N_alphabet, clone_url |-> N_alphabet, description |-> <<>>],
      [name |-> N_beta, clone_url |-> N_beta, description |-> <<>>],
      [name |-> N_Docs, clone_url |-> N_Docs, description |-> D_notes] }

\* the longest cache of the resolver runs
MaxCache == 3

Caches == UNION {[1..n -> RemoteEntries] : n \in 0..MaxCache}

Queries ==
    { N_alpha, <<"A","L","P","H","A">>, <<"b","e","t">>, <<" ","b","e","t","a"," ">>,
      <<"n","o","t","e","s">>, <<"z","z","z">> }

InitResolver ==
    /\ userState = [p \in Jids |-> NoUserState]
    /\ users = [p \in Jids |-> NoUser]
    /\ repos = <<>>
    /\ nextRepoId = 1
    /\ RunsAtRest
    /\ \E cache \in Caches :
          githubReposCache = [p \in Jids |-> IF p = JidA THEN cache ELSE NoCache]
    /\ conversationHistory = [p \in Jids |-> <<>>]
    /\ outbox = [p \in Jids |-> {}]
    /\ log = {}
    /\ ops = {}
    /\ now = 1
    /\ event = NoEvent
    /\ handled = 0
    /\ appends = [p \in Jids |-> 0]
    /\ vercelTokens = [p \in Jids |-> NoVercelToken]

\* findRepoByName(githubReposCache[remoteJid], repoName) is called
FindRepo(query) ==
    /\ event' = [kind |-> "findRepoByName", from |-> JidA, text |-> query,
                 branch |-> "", found |-> findRepoByName(githubReposCache[JidA], query)]
    /\ UNCHANGED <<userState, users, repos, runVars, vercelTokens, nextRepoId, githubReposCache,
                   conversationHistory, outbox, log, ops, now, handled, appends>>

NextResolver == \E query \in Queries : FindRepo(query)

SpecResolver == InitResolver /\ [][NextResolver]_vars

\* the first position of seq that satisfies Test, or 0
FirstIndex(seq, Test(_)) ==
    IF \E i \in 1..Len(seq) : Test(seq[i])
    THEN CHOOSE i \in 1..Len(seq) : Test(seq[i]) /\ \A k \in 1..(i - 1) : ~Test(seq[k])
    ELSE 0

\* C21: the resolver returns the first entry, in cache order, whose name
\* equals the query without regard to case; if there is none, the first
\* whose name contains it; if there is none, the first whose description
\* contains it; otherwise nothing.
C21_ResolverOrder ==
    event.kind = "findRepoByName" =>
        LET cache == githubReposCache[JidA]
            q == toLowerCase(trim(event.text))
            e == FirstIndex(cache, LAMBDA r : toLowerCase(r.name) = q)
            n == FirstIndex(cache, LAMBDA r : includes(toLowerCase(r.name), q))
            d == FirstIndex(cache, LAMBDA r : r.description # <<>>
                                              /\ includes(toLowerCase(r.description), q))
        IN  event.found = IF e # 0 THEN cache[e]
                          ELSE IF n # 0 THEN cache[n]
                          ELSE IF d # 0 THEN cache[d]
                          ELSE NoRemoteRepo

\* "alpha" resolves to alpha although alphabet, which contains it, comes first
C21_ExactBeatsEarlierSubstring ==
    /\ event.kind = "findRepoByName"
    /\ event.text = N_alpha
    /\ Len(githubReposCache[JidA]) = 3
    /\ githubReposCache[JidA][1].name = N_alphabet
    /\ githubReposCache[JidA][2].name = N_alpha
    /\ event.found.name = N_alpha

\* the secret the message of a step asked to save, <<>> if none
SavedBy(ev) ==
    CASE ev.branch \in {"token", "audio-token"} -> detectGitHubToken(ev.text)
      [] ev.branch = "auth"                     -> trim(secondWord(ev.text))
      [] OTHER                                  -> <<>>

\* C22: after a save, whatever was saved before it, getToken returns the
\* secret of that save and the stored value is the encryption of that
\* secret alone.
C22_GetReturnsLastSaved ==
    (event.kind \in {"text", "audio"} /\ SavedBy(event) # <<>>)
    => /\ getToken(event.from) = SavedBy(event)
       /\ users[event.from].tokenEnc = encrypt(SavedBy(event), EncryptionSecret)

\* /auth replaced a token that was stored before
C22_SecondSaveOverwrote ==
    /\ event.kind = "text"
    /\ event.branch = "auth"
    /\ event.hasToken
    /\ getToken(JidA) = AuthToken

\* a record is stored for p and decrypt throws on its tokenEnc
Undecryptable(p) ==
    users[p].exists /\ decrypt(users[p].tokenEnc, EncryptionSecret) = "throws"

\* C23: getToken returns null for a stored value that does not decrypt, and
\* /clone, /repos and /use then get the setup prompt and do nothing else,
\* as for an identity without a record.
C23_UndecryptableIsAbsent ==
    /\ [](\A p \in Jids : Undecryptable(p) => getToken(p) = NoToken)
    /\ [][(event'.kind = "text" /\ event'.branch # "ignored"
              /\ isRepoCommand(event'.text) /\ Undecryptable(event'.from))
          => /\ event'.branch = "gate"
             /\ outbox'[event'.from] = outbox[event'.from] \cup {SetupPrompt}
             /\ users' = users
             /\ repos' = repos
             /\ githubReposCache' = githubReposCache
             /\ ops' = ops]_vars

\* /clone from an identity whose stored token no longer decrypts was gated
C23_StaleTokenGated ==
    /\ event.kind = "text"
    /\ event.branch = "gate"
    /\ event.text = S_clone
    /\ Undecryptable(event.from)
    /\ ops = {}

(***************************************************************************)
(* Deployment commands                                                     *)
(*                                                                         *)
(* /vercel-token, /deploy and /deploy-preview as handleMessage dispatches  *)
(* them.  A child process is summed up by how it ended and what it wrote;  *)
(* its output is a sequence of words and lines.                            *)
(***************************************************************************)
\* messages delivered to the deployment commands in a behaviour
MaxDeployHandled == 2

D_deploy      == C_deploy
D_preview     == C_preview
D_vtoken      == C_vtoken \o VercelToken1
D_vtokenShort == C_vtoken \o ShortToken
D_vtokenNone  == C_vtoken

DeployTexts == {D_deploy, D_preview, D_vtoken, D_vtokenShort, D_vtokenNone}

BuildStderr == <<"npm run build", "exited with 1">>

\* what the deployment tool may have written to stderr when it ends
DeployStderrs ==
    { <<>>, <<"401">>, AuthStderr, BuildStderr, BuildStderr \o <<"401">>,
      <<"ENOENT">>, NetworkStderr }

\* what a deployment that exits with 0 may have written to stdout
DeployStdouts ==
    { <<"out">>,
      <<"Production:", UrlLive>>,
      <<"Inspect:", UrlInspect, "Production:", UrlLive>>,
      <<"Production:", UrlLive, "Inspect:", UrlInspect>> }

\* how the child process of a deployment may end: exit code 0, another exit
\* code, or killed by exec at the 300000 ms timeout
DeployOutcomes ==
    { [failed |-> FALSE, killed |-> FALSE, stderr |-> e, stdout |-> so] :
          e \in {<<>>, <<"401">>}, so \in DeployStdouts }
    \cup { [failed |-> TRUE, killed |-> k, stderr |-> e, stdout |-> <<>>] :
          k \in BOOLEAN, e \in DeployStderrs }

\* route, tabulated for the texts of this machine
DeployRoutes ==
    [t \in DeployTexts |-> [hasToken \in BOOLEAN |->
        [waitingForCommit \in BOOLEAN |-> [waitingForDeployConfirm \in BOOLEAN |->
            route(t, hasToken, waitingForCommit, waitingForDeployConfirm)]]]]

deployBranchOf(remoteJid, t) ==
    DeployRoutes[t][getToken(remoteJid) # NoToken][userState[remoteJid].waitingForCommit]
                [userState[remoteJid].waitingForDeployConfirm]

\* getVercelToken
getVercelToken(phone) == vercelTokens[phone]

\* saveVercelToken
saveVercelToken(phone, token) == [vercelTokens EXCEPT ![phone] = token]

\* testVercelToken(token).valid
testVercelTokenValid(token, o) == validateVercelToken(token) /\ ~o.failed

\* the token is saved as soon as its format is accepted
vercelTokenCommandUnverified(stored, token, o) ==
    IF token = <<>>
    THEN [stored |-> stored, tested |-> FALSE, replies |-> <<<<"Usage: /vercel-token <your_vercel_token>">>>>]
    ELSE IF ~validateVercelToken(token)
    THEN [stored |-> stored, tested |-> FALSE, replies |-> <<<<"Invalid token format!">>>>]
    ELSE [stored |-> token, tested |-> TRUE,
          replies |-> <<<<"Vercel token saved and verified!">> \o tokenTestMessage(token, o)>>]

\* the /vercel-token branch of handleMessage: the credential stored afterwards,
\* whether testVercelToken was called, and the recorded replies
vercelTokenCommand(stored, token, o) ==
    IF token = <<>>
    THEN [stored |-> stored, tested |-> FALSE, replies |-> <<<<"Usage: /vercel-token <your_vercel_token>">>>>]
    ELSE IF ~validateVercelToken(token)
    THEN [stored |-> stored, tested |-> FALSE, replies |-> <<<<"Invalid token format!">>>>]
    ELSE IF testVercelTokenValid(token, o)
    THEN [stored |-> token, tested |-> TRUE,
          replies |-> <<<<"Vercel token saved and verified!">> \o tokenTestMessage(token, o)>>]
    ELSE [stored |-> stored, tested |-> TRUE,
          replies |-> <<<<"Token validation failed!">> \o tokenTestMessage(token, o)>>]

\* what a step of the deployment commands writes besides vercelTokens and ops
DeployEffects(ev, logs, replies, es) ==
    /\ event' = ev
    /\ log' = log \cup logs
    /\ outbox' = [outbox EXCEPT ![ev.from] = @ \cup Range(replies)]
    /\ conversationHistory' = record(conversationHistory, ev.from, es)
    /\ handled' = handled + 1
    /\ UNCHANGED <<userState, users, repos, runVars, nextRepoId, githubReposCache,
                   now, appends>>

\* the descriptor of a deployment command
DeployMessage(from, text, branch, isProduction, o, result) ==
    [kind |-> "text", from |-> from, text |-> text, branch |-> branch,
     hasToken |-> getToken(from) # NoToken, isProduction |-> isProduction,
     exec |-> o, result |-> result, tested |-> FALSE]

NoResult == [success |-> FALSE, url |-> NoUrl, message |-> <<>>, logs |-> <<>>]

\* /vercel-token <token>
TextVercelToken(remoteJid, t, o) ==
    /\ textAdmitted(remoteJid)
    /\ handled < MaxDeployHandled
    /\ deployBranchOf(remoteJid, t) = "vercel-token"
    /\ LET token == trim(secondWord(t))
           done == vercelTokenCommand(getVercelToken(remoteJid), token, o)
       IN  /\ vercelTokens' = saveVercelToken(remoteJid, done.stored)
           /\ DeployEffects(
                 [DeployMessage(remoteJid, t, "vercel-token", FALSE, o, NoResult)
                     EXCEPT !.tested = done.tested],
                 ReceivedLog(remoteJid, t) \cup
                 (IF done.tested THEN {LogEntry("Testing Vercel token validity", <<>>)}
                  ELSE {}),
                 (IF done.tested THEN <<<<"Testing token...">>>> ELSE <<>>) \o done.replies,
                 <<UserEntry(t)>> \o RepliesRecorded(done.replies))
    /\ UNCHANGED ops

\* the timer /deploy sets for its progress update
StillBuildingOp(remoteJid) ==
    [kind |-> "still-building", jid |-> remoteJid, repoUrl |-> <<>>, name |-> <<>>,
     localPath |-> 0, serial |-> handled + 1, via |-> "/deploy"]

\* deployToVercelWithGitHub(repoPath, repoUrl, isProduction, token)
deployToVercelWithGitHub(projectPath, isProduction, token, o) ==
    deployResult(vercelCmd(projectPath,
                           (IF isProduction THEN <<" --prod">> ELSE <<>>) \o <<" --yes">>,
                           token), o)

NoActiveRepoReply ==
    <<"No active repository. Use /repos to list or /clone to add repositories.">>

\* /deploy..., and with it /deploy-preview: the test for '/deploy' comes first
TextDeploy(remoteJid, t, installed, generated, o) ==
    /\ textAdmitted(remoteJid)
    /\ handled < MaxDeployHandled
    /\ deployBranchOf(remoteJid, t) \in {"deploy", "deploy-preview"}
    /\ LET isProduction == deployBranchOf(remoteJid, t) = "deploy"
           activeRepo == getActiveRepo(remoteJid)
           started == activeRepo # NoActiveRepo /\ installed
           result == IF started
                     THEN deployToVercelWithGitHub(<<"./repos/", ToString(activeRepo.localPath)>>,
                                                   isProduction, getVercelToken(remoteJid), o)
                     ELSE NoResult
           starting == IF isProduction THEN <<"Starting Vercel deployment...">>
                       ELSE <<"Starting preview deployment...">>
           replies == IF activeRepo = NoActiveRepo THEN <<NoActiveRepoReply>>
                      ELSE IF ~installed THEN <<<<"Vercel CLI not found!">>>>
                      ELSE <<starting, result.message>>
       IN  /\ ops' = IF started /\ isProduction
                     THEN ops \cup {StillBuildingOp(remoteJid)} ELSE ops
           /\ DeployEffects(
                 DeployMessage(remoteJid, t,
                               IF started THEN "deploy" ELSE "deploy-refused",
                               isProduction, o, result),
                 ReceivedLog(remoteJid, t) \cup
                 (IF started
                  THEN {LogEntry("Starting Vercel deployment",
                                 <<IF isProduction THEN "production" ELSE "preview">>)}
                  ELSE {}),
                 (IF started /\ generated THEN <<<<"generated vercel.json">>>> ELSE <<>>)
                     \o replies,
                 <<UserEntry(t)>> \o RepliesRecorded(replies))
    /\ UNCHANGED vercelTokens

\* the timer of the n-th message fires, a minute after /deploy started
StillBuilding(n) ==
    /\ Pending(n, "still-building")
    /\ ops' = ops \ {OpOf(n)}
    /\ outbox' = [outbox EXCEPT ![OpOf(n).jid] = @ \cup {<<"Still Building...">>}]
    /\ event' = [NoEvent EXCEPT !.kind = "still-building", !.from = OpOf(n).jid]
    /\ UNCHANGED <<userState, users, repos, runVars, vercelTokens, nextRepoId,
                   githubReposCache, conversationHistory, log, now, handled, appends>>

\* the deployment credentials found stored at start-up
StoredAtStart == {NoVercelToken, VercelToken2}

InitDeploy ==
    /\ userState = [p \in Jids |-> NoUserState]
    /\ \E db \in StoreDbAtStart : users = db.users /\ repos = db.repos
    /\ nextRepoId = Len(repos) + 1
    /\ RunsAtRest
    /\ githubReposCache = [p \in Jids |-> NoCache]
    /\ conversationHistory = [p \in Jids |-> <<>>]
    /\ outbox = [p \in Jids |-> {}]
    /\ log = {}
    /\ ops = {}
    /\ now = 1
    /\ event = NoEvent
    /\ handled = 0
    /\ appends = [p \in Jids |-> 0]
    /\ \E stored \in StoredAtStart :
          vercelTokens = [p \in Jids |-> IF p = JidA THEN stored ELSE NoVercelToken]

NextDeploy ==
    \/ \E remoteJid \in Jids, t \in DeployTexts, o \in ExecOutcomes :
          TextVercelToken(remoteJid, t, o)
    \/ \E remoteJid \in Jids, t \in DeployTexts, installed \in BOOLEAN,
          generated \in BOOLEAN, o \in DeployOutcomes :
          TextDeploy(remoteJid, t, installed, generated, o)
    \/ \E n \in 1..MaxDeployHandled : StillBuilding(n)

SpecDeploy == InitDeploy /\ [][NextDeploy]_vars

\* C24: a /vercel-token command stores its token only when the token passed
\* the format validation and the whoami test made afterwards reported it
\* valid; the test is never made on a token that failed the validation; in
\* every other case the credential stored for the identity stays as it was.
C24_SaveOnlyVerified ==
    [][ (event'.branch = "vercel-token" /\ handled' = handled + 1) =>
            LET token == trim(secondWord(event'.text))
                wellFormed == /\ Len(token) >= VercelTokenMinLen
                              /\ \A i \in 1..Len(token) : token[i] \notin {" ", "\n", "\t"}
            IN  /\ event'.tested => wellFormed
                /\ IF wellFormed /\ event'.tested /\ ~event'.exec.failed
                   THEN vercelTokens' = [vercelTokens EXCEPT ![event'.from] = token]
                   ELSE vercelTokens' = vercelTokens ]_vars

\* a well-formed token was tested, the test failed, and the credential stored
\* before is still the one stored
C24_FailedTestKeepsStored ==
    /\ event.branch = "vercel-token"
    /\ event.tested
    /\ event.exec.failed
    /\ vercelTokens[event.from] = VercelToken2

\* C25: every deployment whose child process wrote "401" to stderr is
\* answered with the authentication failure and its remedy, whatever the way
\* the process ended and whatever else it wrote.
C25_Stderr401IsAuthFailure ==
    (event.branch = "deploy" /\ includes(event.exec.stderr, <<"401">>))
        => /\ includes(event.result.message, <<"Authentication Failed">>)
           /\ includes(event.result.message, <<"Use /vercel-token <new_token>">>)

\* C26: a deployment killed at the five-minute timeout resolves with the
\* timeout message, which points to /vercel-status and carries none of the
\* headings of the other outcomes, whatever the process had written to stderr.
C26_KilledIsTimeout ==
    (event.branch = "deploy" /\ event.exec.killed)
        => /\ ~event.result.success
           /\ event.result.message =
                 <<"Deployment Timed Out (5 min)",
                   "Try /vercel-status to check if it completed.">>
           /\ \A heading \in {"Authentication Failed", "Deployment Failed",
                              "Build Error:", "Missing Files:", "Error:",
                              "Deployment Successful!"} :
                 ~includes(event.result.message, <<heading>>)

\* a killed deployment whose stderr carries the build and the 401 signatures
C26_KilledWithOtherSignatures ==
    /\ event.branch = "deploy"
    /\ event.exec.killed
    /\ isBuildError(event.exec)
    /\ includes(event.exec.stderr, <<"401">>)
    /\ includes(event.result.message, <<"Deployment Timed Out (5 min)">>)

\* C27: a deployment that succeeded with several deployment URLs on stdout
\* reports the last of them as its URL and as the Live URL of its message, and
\* no earlier one.
C27_LastUrlWins ==
    (event.branch = "deploy" /\ event.result.success
        /\ Len(SelectSeq(event.exec.stdout, IsVercelAppUrl)) >= 2)
        => LET matches == SelectSeq(event.exec.stdout, IsVercelAppUrl)
               last == matches[Len(matches)]
           IN  /\ event.result.url = last
               /\ includes(event.result.message, <<"Live URL:", last>>)
               /\ \A k \in 1..(Len(matches) - 1) :
                     matches[k] # last => ~includes(event.result.message, <<matches[k]>>)

\* the production URL was written first and the inspect URL last
C27_InspectUrlLast ==
    /\ event.branch = "deploy"
    /\ event.result.success
    /\ event.exec.stdout = <<"Production:", UrlLive, "Inspect:", UrlInspect>>
    /\ event.result.url = UrlInspect

\* C28: a message that starts with /deploy-preview never starts a production
\* deployment.
C28_PreviewNeverProduction ==
    (event.branch = "deploy" /\ startsWith(event.text, C_preview))
        => ~event.isProduction

\* C29: every commit comes from a confirmation that was consumed after the
\* diff image of that edit had been sent to the identity.
C29_PreviewBeforeConfirmation ==
    \A r \in Slots : runs[r].git = "committed" => runs[r].previewed

(***************************************************************************)
(* Commit messages                                                         *)
(*                                                                         *)
(* generateCommitMessage reads the staged diff and the prompt of the edit. *)
(* The diff is a sequence of fragments (file names, line markers, words);  *)
(* the prompt is a string.                                                 *)
(***************************************************************************)
P_fixIt   == <<"f","i","x"," ","i","t">>
P_title   == <<"C","h","a","n","g","e"," ","t","h","e"," ","t","i","t","l","e">>
P_env     == <<"t","u","n","e"," ","e","n","v"," ","v","a","r","s",".">>

\* the prompts of the edits
Prompts == {P_fixIt, P_title, P_env}

\* fragments a staged diff may contain
DiffFragments ==
    {"package.json", "README", "test", ".css", "config", "+ ", "- ", "fix", "src/app.ts"}

\* fragments in one staged diff
MaxFragments == 2

\* stdout.trim() of git diff --staged: nothing staged, or up to MaxFragments fragments
Diffs ==
    {<<>>} \cup {<<a>> : a \in DiffFragments}
    \cup {<<p[1], p[2]>> : p \in {q \in DiffFragments \X DiffFragments : q[1] # q[2]}}

\* /^(add|create|fix|update|refactor|improve|change|remove|delete)/
LeadingVerbs ==
    {<<"a","d","d">>,
     <<"c","r","e","a","t","e">>,
     <<"f","i","x">>,
     <<"u","p","d","a","t","e">>,
     <<"r","e","f","a","c","t","o","r">>,
     <<"i","m","p","r","o","v","e">>,
     <<"c","h","a","n","g","e">>,
     <<"r","e","m","o","v","e">>,
     <<"d","e","l","e","t","e">>}

\* the verbs a description may start with: the same, and implement, enhance
ImperativeVerbs ==
    LeadingVerbs \cup {<<"i","m","p","l","e","m","e","n","t">>, <<"e","n","h","a","n","c","e">>}

Articles == {<<"a">>, <<"a","n">>, <<"t","h","e">>}

FixWords == {<<"f","i","x">>, <<"b","u","g">>, <<"e","r","r","o","r">>}
StyleWords == {<<"s","t","y","l","e">>, <<"c","s","s">>, <<"d","e","s","i","g","n">>, <<"u","i">>}
RefactorWords == {<<"r","e","f","a","c","t","o","r">>, <<"c","l","e","a","n","u","p">>, <<"i","m","p","r","o","v","e">>}
TestWords == {<<"t","e","s","t">>, <<"s","p","e","c">>}
DocWords == {<<"d","o","c">>, <<"r","e","a","d","m","e">>, <<"c","o","m","m","e","n","t">>}
ChoreWords == {<<"c","o","n","f","i","g">>, <<"s","e","t","t","i","n","g">>, <<"e","n","v">>}
FeatWords == {<<"a","d","d">>, <<"c","r","e","a","t","e">>, <<"n","e","w">>}

hasAny(t, words) == \E w \in words : includes(t, w)

NoType == ""

\* generateCommitFromPrompt: the commit type
promptType(prompt, suggestedType) ==
    LET cleanPrompt == trim(toLowerCase(prompt))
    IN  IF hasAny(cleanPrompt, FixWords) THEN "fix"
        ELSE IF hasAny(cleanPrompt, StyleWords) THEN "style"
        ELSE IF hasAny(cleanPrompt, RefactorWords) THEN "refactor"
        ELSE IF hasAny(cleanPrompt, TestWords) THEN "test"
        ELSE IF hasAny(cleanPrompt, DocWords) THEN "docs"
        ELSE IF hasAny(cleanPrompt, ChoreWords) THEN "chore"
        ELSE IF hasAny(cleanPrompt, FeatWords) THEN "feat"
        ELSE IF suggestedType # NoType THEN suggestedType
        ELSE "feat"

\* .replace(/^(add|create|...|delete)\s*/i, '')
stripLeadingVerb(t) ==
    IF \E v \in LeadingVerbs : startsWith(toLowerCase(t), v)
    THEN LET v == CHOOSE v \in LeadingVerbs : startsWith(toLowerCase(t), v)
         IN  trimStart(SubSeq(t, Len(v) + 1, Len(t)))
    ELSE t

\* .replace(/^(a|an|the)\s+/i, '')
stripArticle(t) ==
    IF \E a \in Articles : startsWith(toLowerCase(t), a \o <<" ">>)
    THEN LET a == CHOOSE a \in Articles : startsWith(toLowerCase(t), a \o <<" ">>)
         IN  trimStart(SubSeq(t, Len(a) + 1, Len(t)))
    ELSE t

\* the verb put before a description that does not start with one
verbFor(type) ==
    CASE type = "feat" -> <<"a","d","d"," ">>
      [] type = "fix" -> <<"f","i","x"," ">>
      [] type = "refactor" -> <<"r","e","f","a","c","t","o","r"," ">>
      [] OTHER -> <<"u","p","d","a","t","e"," ">>

\* description.substring(0, 50)
DescriptionLimit == 50

\* generateCommitFromPrompt: the description
promptDescription(prompt, type) ==
    LET stripped == trim(toLowerCase(stripArticle(stripLeadingVerb(prompt))))
        verbed == IF \E v \in ImperativeVerbs : startsWith(stripped, v) THEN stripped
                  ELSE verbFor(type) \o stripped
        cut == SubSeq(verbed, 1, IF Len(verbed) < DescriptionLimit THEN Len(verbed)
                                 ELSE DescriptionLimit)
    IN  IF cut # <<>> /\ cut[Len(cut)] = "." THEN SubSeq(cut, 1, Len(cut) - 1) ELSE cut

\* `${type}: ${description}`
generateCommitFromPrompt(prompt, suggestedType) ==
    <<promptType(prompt, suggestedType), ": ">>
        \o promptDescription(prompt, promptType(prompt, suggestedType))

diffHas(diff, fragments) == \E f \in fragments : includes(diff, <<f>>)

\* generateCommitMessage: err is the error of git diff --staged, diff its
\* trimmed output
generateCommitMessage(err, diff, userPrompt) ==
    IF err \/ diff = <<>> THEN generateCommitFromPrompt(userPrompt, NoType)
    ELSE IF diffHas(diff, {"package.json", "yarn.lock", "package-lock.json"})
    THEN <<"chore", ": ", "update dependencies">>
    ELSE IF diffHas(diff, {"README", ".md"})
    THEN <<"docs", ": ", "update documentation">>
    ELSE IF diffHas(diff, {"test", ".test.", ".spec."})
    THEN <<"test", ": ", "update tests">>
    ELSE IF diffHas(diff, {".css", ".scss", "style"})
    THEN <<"style", ": ", "update styling">>
    ELSE IF diffHas(diff, {"config", ".env", "settings"})
    THEN <<"config", ": ", "update configuration">>
    ELSE IF diffHas(diff, {"+ "}) /\ ~diffHas(diff, {"- "})
    THEN generateCommitFromPrompt(userPrompt, "feat")
    ELSE IF diffHas(diff, {"- "}) /\ diffHas(diff, {"+ "})
    THEN generateCommitFromPrompt(userPrompt, "refactor")
    ELSE IF diffHas(diff, {"fix", "bug"}) \/ includes(toLowerCase(userPrompt), <<"f","i","x">>)
    THEN generateCommitFromPrompt(userPrompt, "fix")
    ELSE generateCommitFromPrompt(userPrompt, NoType)

\* the edit whose commit message is asked for: what is staged and the prompt
StagedEdit(diff, userPrompt) ==
    [kind |-> "staged", from |-> "", text |-> userPrompt, branch |-> "",
     diff |-> diff, err |-> FALSE, message |-> <<>>]

InitCommitMessage ==
    /\ userState = [p \in Jids |-> NoUserState]
    /\ users = [p \in Jids |-> NoUser]
    /\ repos = <<>>
    /\ nextRepoId = 1
    /\ RunsAtRest
    /\ githubReposCache = [p \in Jids |-> NoCache]
    /\ conversationHistory = [p \in Jids |-> <<>>]
    /\ outbox = [p \in Jids |-> {}]
    /\ log = {}
    /\ ops = {}
    /\ now = 1
    /\ \E diff \in Diffs, userPrompt \in Prompts : event = StagedEdit(diff, userPrompt)
    /\ handled = 0
    /\ appends = [p \in Jids |-> 0]
    /\ vercelTokens = [p \in Jids |-> NoVercelToken]

\* generateCommitMessage(repoPath, userPrompt) resolves
GenerateCommitMessage(err) ==
    /\ event.kind = "staged"
    /\ event' = [event EXCEPT !.kind = "generateCommitMessage", !.err = err,
                              !.message = generateCommitMessage(err, event.diff, event.text)]
    /\ handled' = handled + 1
    /\ UNCHANGED <<userState, users, repos, runVars, vercelTokens, nextRepoId,
                   githubReposCache, conversationHistory, outbox, log, ops, now, appends>>

NextCommitMessage == \E err \in BOOLEAN : GenerateCommitMessage(err)

SpecCommitMessage == InitCommitMessage /\ [][NextCommitMessage]_vars

\* C30: for a staged diff that is not empty the commit message is
\* "chore: update dependencies" when the diff names a dependency manifest;
\* otherwise its type is docs for documentation, else test for tests, else
\* style for stylesheets, else chore for configuration or environment files.
C30_CategoryOrder ==
    (event.kind = "generateCommitMessage" /\ ~event.err /\ event.diff # <<>>)
        => LET touches(fragment) == \E i \in 1..Len(event.diff) : event.diff[i] = fragment
               type == event.message[1]
           IN  IF touches("package.json")
               THEN event.message = <<"chore", ": ", "update dependencies">>
               ELSE IF touches("README") THEN type = "docs"
               ELSE IF touches("test") THEN type = "test"
               ELSE IF touches(".css") THEN type = "style"
               ELSE IF touches("config") THEN type = "chore"
               ELSE TRUE

\* the type the keywords of an instruction give, feat when none is found
keywordType(prompt) ==
    LET cleanPrompt == trim(toLowerCase(prompt))
    IN  IF hasAny(cleanPrompt, FixWords) THEN "fix"
        ELSE IF hasAny(cleanPrompt, StyleWords) THEN "style"
        ELSE IF hasAny(cleanPrompt, RefactorWords) THEN "refactor"
        ELSE IF hasAny(cleanPrompt, TestWords) THEN "test"
        ELSE IF hasAny(cleanPrompt, DocWords) THEN "docs"
        ELSE IF hasAny(cleanPrompt, ChoreWords) THEN "chore"
        ELSE "feat"

\* the fragments by which generateCommitMessage recognises a file category
CategoryFragments == {"package.json", "README", "test", ".css", "config"}

\* C31: for a staged diff that matches no file category the commit type is
\* the one of the first keyword group found in the instruction (fix, style,
\* refactor, test, docs, chore, in this order) and feat when no keyword is
\* found, whatever else the diff contains.
C31_TypeFromInstructionOnly ==
    (event.kind = "generateCommitMessage" /\ ~event.err /\ event.diff # <<>>
        /\ \A i \in 1..Len(event.diff) : event.diff[i] \notin CategoryFragments)
        => event.message[1] = keywordType(event.text)

C33_NotSerialized ==
    [][ (handled' = handled + 1 /\ event'.branch \in {"clone", "nlclone"})
            => /\ ops \subseteq ops'
               /\ \E op \in ops' \ ops :
                     /\ op.jid = event'.from
                     /\ op.kind = "clone"
                     /\ op.serial = handled' ]_vars

\* a clone has just been started for an identity whose earlier clone is
\* still running
C33_SecondStartedWhileFirstOutstanding ==
    /\ event.branch = "clone"
    /\ \E first \in ops, second \in ops :
          /\ first.jid = event.from
          /\ second.jid = event.from
          /\ first.kind = "clone"
          /\ second.kind = "clone"
          /\ first.serial < second.serial
          /\ second.serial = handled

\* C34: for every identity, no two RepoRecords have the same remote URL
C34_NoDuplicateClone ==
    \A i \in 1..Len(repos), j \in 1..Len(repos) :
        (i # j /\ repos[i].phone = repos[j].phone)
            => repos[i].repoUrl # repos[j].repoUrl

\* String.prototype.replace with a string pattern: the first occurrence only
replaceFirst(t, pat, by) ==
    IF ~includes(t, pat) THEN t
    ELSE LET i == CHOOSE k \in 1..Len(t) :
                     /\ OccursAt(t, pat, k)
                     /\ \A m \in 1..(k - 1) : ~OccursAt(t, pat, m)
         IN  SubSeq(t, 1, i - 1) \o by \o SubSeq(t, i + Len(pat), Len(t))

Https == <<"h","t","t","p","s",":","/","/">>

\* originUrl.replace('https://', `https://${token}@`)
tokenUrl(originUrl, token) == replaceFirst(originUrl, Https, Https \o token \o <<"@">>)

\* the origin remote of a clone: over https, or over ssh
OriginUrls == {Https \o <<"h","/">> \o RepoUrl1, <<"g","i","t","@","h",":">> \o RepoUrl1}

\* the changes one side of the repository holds: none, or one fragment
Changes == {<<>>} \cup {<<a>> : a \in DiffFragments}

\* the clone when the confirmation arrives: the edit's changes in the working
\* tree, what an earlier git add left in the index, and lastPrompt
Confirmed(unstaged, staged, lastPrompt, origin, token) ==
    [kind |-> "confirmed", from |-> "", text |-> lastPrompt, branch |-> "",
     unstaged |-> unstaged, staged |-> staged,
     diff |-> <<>>, err |-> FALSE, message |-> <<>>, committed |-> <<>>,
     origin |-> origin, cloned |-> origin, originUrl |-> <<>>, token |-> token]

InitCommit ==
    /\ userState = [p \in Jids |-> NoUserState]
    /\ users = [p \in Jids |-> NoUser]
    /\ repos = <<>>
    /\ nextRepoId = 1
    /\ RunsAtRest
    /\ githubReposCache = [p \in Jids |-> NoCache]
    /\ conversationHistory = [p \in Jids |-> <<>>]
    /\ outbox = [p \in Jids |-> {}]
    /\ log = {}
    /\ ops = {}
    /\ now = 1
    /\ \E unstaged \in Changes, staged \in Changes, lastPrompt \in Prompts,
          origin \in OriginUrls, token \in {NoToken, Token1} :
          event = Confirmed(unstaged, staged, lastPrompt, origin, token)
    /\ handled = 0
    /\ appends = [p \in Jids |-> 0]
    /\ vercelTokens = [p \in Jids |-> NoVercelToken]

CommitFrame ==
    UNCHANGED <<userState, users, repos, runVars, vercelTokens, nextRepoId,
                githubReposCache, conversationHistory, outbox, log, ops, now,
                handled, appends>>

\* const commitMessage = await generateCommitMessage(repoPath, lastPrompt):
\* git diff --staged reads the index as it is
ReadStagedDiff(err) ==
    /\ event.kind = "confirmed"
    /\ event' = [event EXCEPT !.kind = "message", !.err = err, !.diff = event.staged,
                              !.message = generateCommitMessage(err, event.staged, event.text)]
    /\ CommitFrame

\* await git.add('.')
GitAdd ==
    /\ event.kind = "message"
    /\ event' = [event EXCEPT !.kind = "added", !.staged = event.staged \o event.unstaged,
                              !.unstaged = <<>>]
    /\ CommitFrame

\* await git.commit(commitMessage)
GitCommit ==
    /\ event.kind = "added"
    /\ event' = [event EXCEPT !.kind = "committed", !.committed = event.staged,
                              !.staged = <<>>]
    /\ CommitFrame

\* getToken(remoteJid) is null: the commit stays local
CommitLocal ==
    /\ event.kind = "committed"
    /\ event.token = NoToken
    /\ event' = [event EXCEPT !.kind = "ended", !.branch = "local"]
    /\ CommitFrame

\* git remote get-url origin, then git remote set-url origin tokenUrl
SetTokenUrl ==
    /\ event.kind = "committed"
    /\ event.token # NoToken
    /\ event' = [event EXCEPT !.kind = "pushing", !.originUrl = event.origin,
                              !.origin = tokenUrl(event.origin, event.token)]
    /\ CommitFrame

\* await git.push('origin', 'HEAD'): it returns and origin is set back, or it
\* throws into the catch that reports the failure
GitPush(pushed) ==
    /\ event.kind = "pushing"
    /\ event' = IF pushed
                THEN [event EXCEPT !.kind = "ended", !.branch = "pushed",
                                   !.origin = event.originUrl]
                ELSE [event EXCEPT !.kind = "ended", !.branch = "push-failed"]
    /\ CommitFrame

NextCommit ==
    \/ \E err \in BOOLEAN : ReadStagedDiff(err)
    \/ GitAdd
    \/ GitCommit
    \/ CommitLocal
    \/ SetTokenUrl
    \/ \E pushed \in BOOLEAN : GitPush(pushed)

SpecCommit == InitCommit /\ [][NextCommit]_vars

\* C35: on an affirmative confirmation the diff the commit message is made
\* from is the diff of the changes the commit holds, so the empty diff, for
\* which the message is made from the instruction alone, is read only when
\* those changes are empty.
C35_MessageFromCommittedChanges ==
    (event.kind = "committed" /\ ~event.err)
        => /\ event.diff = event.committed
           /\ (event.diff = <<>> => event.committed = <<>>)

\* C39: in every reachable state each identity's active pointer is empty or
\* the id of an existing RepoRecord owned by that identity.
C39_ActivePointerOwned ==
    \A p \in Jids :
        (users[p].exists /\ users[p].activeRepoId # NoRepo)
            => \E i \in 1..Len(repos) :
                  /\ repos[i].id = users[p].activeRepoId
                  /\ repos[i].phone = p

\* an identity with two clones has just moved its pointer back to the first
\* one with /use, and another identity is registered
C39_PointerMovedBack ==
    /\ event.branch = "use"
    /\ Len(listRepos(event.from)) = 2
    /\ users[event.from].activeRepoId = listRepos(event.from)[1].id
    /\ \E p \in Jids \ {event.from} : users[p].exists

\* remote URLs of the clones of a registry
RepoUrlShort == <<"u","r","l">>
RepoUrlUpper == <<"U","R","L">>
UseUrls == {RepoUrl1, RepoUrl2, RepoUrlShort, RepoUrlUpper}

\* clones in one registry
MaxClones == 3

\* the registries of JidA: its clones in the order their clones completed
Registries ==
    UNION {[1..n -> UseUrls] : n \in 0..MaxClones}

\* db.json with the registry urls, all of JidA, and its pointer at record active
dbOf(urls, active) ==
    [users |-> [p \in Jids |->
                   IF p = JidA
                   THEN [exists |-> TRUE,
                         tokenEnc |-> encrypt(Token1, EncryptionSecret),
                         activeRepoId |-> active]
                   ELSE NoUser],
     repos |-> [i \in 1..Len(urls) |->
                   [id |-> i, phone |-> JidA, repoUrl |-> urls[i], localPath |-> i]]]

InitUse ==
    /\ userState = [p \in Jids |-> NoUserState]
    /\ \E urls \in Registries :
          \E active \in {i \in 0..Len(urls) : i = Len(urls) \/ i = 1} :
             /\ users = dbOf(urls, active).users
             /\ repos = dbOf(urls, active).repos
    /\ nextRepoId = Len(repos) + 1
    /\ RunsAtRest
    /\ githubReposCache = [p \in Jids |-> NoCache]
    /\ conversationHistory = [p \in Jids |-> <<>>]
    /\ outbox = [p \in Jids |-> {}]
    /\ log = {}
    /\ ops = {}
    /\ now = Len(repos) + 1
    /\ event = NoEvent
    /\ handled = 0
    /\ appends = [p \in Jids |-> 0]
    /\ vercelTokens = [p \in Jids |-> NoVercelToken]

NextUse == \E t \in {S_use, S_use2} : TextUse(JidA, t)

SpecUse == InitUse /\ [][NextUse]_vars

\* C40: after /use <name>, when a clone of the identity is named <name>
\* (letter case aside), the active repository is a clone of that name, also
\* when an earlier clone's name only contains <name>.
C40_ExactNameSelected ==
    LET arg == toLowerCase(restOfText(event.text))
        named(r) == toLowerCase(repoNameFromUrl(r.repoUrl)) = arg
    IN  (event.branch = "use"
         /\ \E i \in 1..Len(listRepos(event.from)) : named(listRepos(event.from)[i]))
            => /\ getActiveRepo(event.from) # NoActiveRepo
               /\ named(getActiveRepo(event.from))

\* C38: a progress notification of a deployment is sent only while that
\* deployment is running: when the timer of the n-th message fires, the
\* handler of that message has not yet reported the deployment's result
\* and returned (handled counts the handlers that have returned).
C38_NoKeepaliveAfterResult ==
    [][ \A op \in ops :
           (op.kind = "still-building" /\ op \notin ops'
            /\ <<"Still Building...">> \in outbox'[op.jid])
               => handled < op.serial ]_vars

\* a second clone of JidA
Repo2 == [id |-> 2, phone |-> JidA, repoUrl |-> RepoUrl2, localPath |-> 2]

\* userState after the commit and push of the edit of the clone at repoPath
\* raised the deploy prompt: lines 788, 909 and 961
Prompted(repoPath) ==
    [repoPath |-> repoPath, waitingForCommit |-> FALSE,
     waitingForDeployConfirm |-> TRUE, lastPrompt |-> P_title, entry |-> 0]

\* JidA has two clones; the edit of its active one was committed and pushed
\* and the deploy prompt has been sent
InitConfirm ==
    /\ \E prompted \in {Repo1, Repo2} :
          /\ userState = [p \in Jids |-> IF p = JidA THEN Prompted(prompted.localPath)
                                         ELSE NoUserState]
          /\ users = [p \in Jids |->
                         IF p = JidA
                         THEN [exists |-> TRUE,
                               tokenEnc |-> encrypt(Token1, EncryptionSecret),
                               activeRepoId |-> prompted.id]
                         ELSE NoUser]
    /\ repos = <<Repo1, Repo2>>
    /\ nextRepoId = 3
    /\ RunsAtRest
    /\ githubReposCache = [p \in Jids |-> NoCache]
    /\ conversationHistory = [p \in Jids |-> <<>>]
    /\ outbox = [p \in Jids |-> {}]
    /\ log = {}
    /\ ops = {}
    /\ now = 3
    /\ event = NoEvent
    /\ handled = 0
    /\ appends = [p \in Jids |-> 0]
    /\ \E stored \in StoredAtStart :
          vercelTokens = [p \in Jids |-> IF p = JidA THEN stored ELSE NoVercelToken]

\* a text arrives while waitingForDeployConfirm is set
TextDeployConfirm(remoteJid, t, o) ==
    /\ textAdmitted(remoteJid)
    /\ handled < MaxHandled
    /\ branchOf(remoteJid, t) = "deployconfirm"
    /\ LET activeRepo == getActiveRepo(remoteJid)
           deploys == isDeployYes(t) /\ activeRepo # NoActiveRepo
           result == IF deploys
                     THEN deployToVercelWithGitHub(<<"./repos/", ToString(activeRepo.localPath)>>,
                                                   TRUE, getVercelToken(remoteJid), o)
                     ELSE NoResult
           starting == <<"Starting GitHub-integrated Vercel deployment...">>
           none == <<"No active repository found for deployment.">>
           skipped == <<"Deployment skipped. You can deploy later using /deploy command.">>
       IN  Effects([deployed |-> IF deploys THEN activeRepo.localPath ELSE 0,
                    exec |-> o]
                       @@ Message("text", remoteJid, t,
                                  IF deploys THEN "deployconfirm-deploy"
                                  ELSE IF isDeployYes(t) THEN "deployconfirm-no-repo"
                                  ELSE "deployconfirm-skipped"),
                   ReceivedLog(remoteJid, t),
                   IF deploys THEN <<starting, result.message>>
                   ELSE IF isDeployYes(t) THEN <<none>> ELSE <<skipped>>,
                   <<UserEntry(t),
                     AssistantEntry(IF deploys THEN result.message
                                    ELSE IF isDeployYes(t) THEN none ELSE skipped)>>)
    /\ userState' = [userState EXCEPT ![remoteJid].waitingForDeployConfirm = FALSE]
    /\ handled' = handled + 1
    /\ UNCHANGED <<users, repos, nextRepoId, githubReposCache, ops, now>>

NextConfirm ==
    \/ \E t \in {S_use, S_use2} : TextUse(JidA, t)
    \/ \E t \in {S_yes, S_later}, o \in DeployOutcomes : TextDeployConfirm(JidA, t, o)

SpecConfirm == InitConfirm /\ [][NextConfirm]_vars

\* C36: an affirmative reply to the deploy prompt deploys the clone whose
\* commit and push raised the prompt (userState.repoPath).
C36_DeploysPromptedRepo ==
    event.branch = "deployconfirm-deploy"
        => event.deployed = userState[event.from].repoPath

\* C37: when the processing of an affirmative commit confirmation has ended,
\* with the push done or failed, the origin remote of the clone is the URL it
\* was cloned with and does not hold the credential.
C37_OriginRestored ==
    (event.kind = "ended" /\ event.branch \in {"pushed", "push-failed"})
        => /\ event.origin = event.cloned
           /\ ~includes(event.origin, event.token)

====
